---- MODULE Spec2Model ----
(***************************************************************************)
(* A model of pixdrill: the per-point statistics store (drillstats.py),    *)
(* the per-item reader (drillpoints.ItemDriller) and the orchestrator      *)
(* (drill.drill).                                                          *)
(*                                                                         *)
(* A Python dict is a function whose DOMAIN is the set of its keys.  Every *)
(* value kept under a key of an entry has the same record shape            *)
(*     [kind, fn, items]                                                   *)
(* kind = "item"    the Item object (fn is its id)                         *)
(*        "list"    a Python list (the raw list, the array-record list)    *)
(*        "ndarray" the numpy array returned by a standard statistic       *)
(*        "user"    the value returned by a user function fn               *)
(*        "none"    Python's None                                          *)
(* and every element of items is a cell [tag, item, asset, pt] naming the  *)
(* array it is (tag "info": the ArrayInfo, tag "data": its masked array,   *)
(* tag = a statistic name: that statistic of the array).                   *)
(***************************************************************************)
EXTENDS Integers, Sequences, FiniteSets, TLC

\* ---------------------------------------------------------------- bounds
\* Number of API calls made in one behaviour of Spec.
MaxOps == 3
\* SpecReset: number of calls made before the reset, and of add_data calls
\* made after it.
MaxHist == 2
MaxAdds == 2
\* SpecReader: the largest buffer of a point, and how far outside the
\* raster its centre can lie, in map units.
MaxBuffer == 4
MaxMargin == 5
\* SpecBuild: the longest list of points.
MaxPoints == 2

\* ------------------------------------------------------------- constants
STATS_RAW == "raw"
STATS_ARRAYINFO == "arrayinfo"
STATS_MEAN == "mean"
STATS_STDEV == "stddev"
STATS_COUNT == "count"
STATS_COUNTNULL == "countnull"
\* drillstats.py:56 lists STATS_COUNT twice and never STATS_COUNTNULL.
STATS_STD == <<STATS_MEAN, STATS_STDEV, STATS_COUNT, STATS_COUNT>>
ITEM_KEY == "ITEM"
\* The keys of drillstats.STD_STATS_FUNCS.
STD_STATS_FUNCS == {STATS_MEAN, STATS_STDEV, STATS_COUNT, STATS_COUNTNULL}

\* ------------------------------------------------------------ the world
Points == {"p1", "p2"}
\* X is a catalog (pystac) item, IMG and IMG2 are plain images
\* (drill.ImageItem).  An item is identified with its id.  The calls of Spec
\* are made on Items; drill() works on all of them.
Items == {"X", "IMG"}
AllItems == Items \cup {"IMG2"}
IsImageItem(it) == it \in {"IMG", "IMG2"}
\* The asset id of a plain image's reader is None.
NoAsset == "None"
\* The channels that can be read from an item.
AssetsOf(it) == IF IsImageItem(it) THEN {NoAsset} ELSE {"a1", "a2", "mb"}
\* Number of bands of the raster behind a channel: "mb" is a multi-band asset.
RasterCount(a) == IF a = "mb" THEN 2 ELSE 1

\* ---------------------------------------------------------------- values
NoneVal == [kind |-> "none", fn |-> "", items |-> <<>>]
ListVal(s) == [kind |-> "list", fn |-> "", items |-> s]
ItemVal(it) == [kind |-> "item", fn |-> it, items |-> <<>>]
NdArray(s) == [kind |-> "ndarray", fn |-> "", items |-> s]
EmptyDict == [k \in {} |-> NoneVal]

\* The .data attribute of an ArrayInfo.
DataOf(rec) == [rec EXCEPT !.tag = "data"]
\* arr.shape[0] of a masked array: its number of bands, and 0 for the empty
\* array, whose shape is (0,).
Shape0(arr) == IF arr.empty THEN 0 ELSE RasterCount(arr.asset)

\* d[k] = v on a dict.
DictSet(d, k, v) == [x \in (DOMAIN d) \cup {k} |-> IF x = k THEN v ELSE d[x]]
\* l.append(x) on a value that holds a list.
AppendTo(val, x) == [val EXCEPT !.items = Append(@, x)]
\* x in l, for a list l.
InList(x, l) == \E i \in 1..Len(l) : l[i] = x
Range(l) == {l[i] : i \in 1..Len(l)}

VARIABLES
    store,      \* store[p] : PointStats.item_stats of point p
    hist,       \* hist[p][id] : the ArrayInfos passed to add_data for id
                \* since the last reset of id (history variable)
    drillers,   \* drillers[it] : the ItemDriller of item it
    last,       \* the last call made: what, on whom, and its outcome
    ops,        \* number of calls made
    drillPc,    \* position of drill(): "idle", "extract", "done", "raised"
    drillIdx,   \* number of drillers drill() has gone past
    drillArgs,  \* the arguments of the running drill()
    drillLog,   \* per driller gone through: what its extract step did
    twin,       \* the comparison run of SpecReset
    image,      \* ImageReader.info of the open raster
    point,      \* the Point the reader is called with, in the image's CRS
    roi,        \* the last call made on the reader and what it returned
    reads,      \* reads[a][p] : whether read_roi on the raster of channel a
                \* returns an empty ArrayInfo for point p of the store
    pool,       \* the ThreadPoolExecutor of drill(): its work items
    built,      \* the last create_*_drillers call and what it returned
    crs         \* the last change_buffer_units call and what it returned

vars == <<store, hist, drillers, last, ops, drillPc, drillIdx, drillArgs,
          drillLog, twin, image, point, roi, reads, pool, built, crs>>
drillVars == <<drillPc, drillIdx, drillArgs, drillLog>>
readerVars == <<image, point, roi, reads>>
sideVars == <<pool, built, crs>>

\* ------------------------------------------------- drillstats.PointStats
\* The dict reset() stores and add_data() starts from.
CleanStats(itemVal) ==
    [k \in {ITEM_KEY, STATS_RAW, STATS_ARRAYINFO} |->
        IF k = ITEM_KEY THEN itemVal ELSE ListVal(<<>>)]

\* PointStats.add_data(item, arr_info) on the dict is = self.item_stats.
add_data(is, it, rec) ==
    LET stats == IF it \in DOMAIN is THEN is[it] ELSE CleanStats(ItemVal(it))
        s1 == [stats EXCEPT ![STATS_RAW] = AppendTo(@, DataOf(rec))]
        s2 == [s1 EXCEPT ![STATS_ARRAYINFO] = AppendTo(@, rec)]
    IN  DictSet(is, it, s2)

\* The indices (from 0) that the message built by check_std_arrays names:
\* one line per array with rcount > 1.
errmsg_skips_two_bands(asset_arrays) ==
    { idx - 1 : idx \in { i \in 1..Len(asset_arrays) :
                              Shape0(asset_arrays[i]) > 2 } }
errmsg(asset_arrays) ==
    { idx - 1 : idx \in { i \in 1..Len(asset_arrays) :
                              Shape0(asset_arrays[i]) > 1 } }
\* check_std_arrays: TRUE when it raises MultibandAssetError (if errmsg:).
check_std_arrays(asset_arrays) == errmsg(asset_arrays) /= {}

\* A standard statistic function: one value per array, in order.
std_stat_func(name, asset_arrays) ==
    NdArray([i \in 1..Len(asset_arrays) |->
                [asset_arrays[i] EXCEPT !.tag = name]])

\* A user function, called with (array-record list, item, point).  The user
\* functions of the model are total and return a list: user_range one value
\* per array record (as user_range of tests/test_drill.py does), and
\* user_total a single value for all the records together.
stat_func(fn, infos, itemVal, p) ==
    [kind |-> "user", fn |-> fn,
     items |-> IF fn = "user_total"
               THEN << [tag |-> fn, item |-> itemVal.fn, asset |-> "*",
                        pt |-> p, empty |-> FALSE] >>
               ELSE [i \in 1..Len(infos.items) |->
                        [infos.items[i] EXCEPT !.tag = fn]]]

\* s_s for s_s in std_stats if s_s not in [STATS_RAW, STATS_ARRAYINFO]
stats_list(std_stats) ==
    SelectSeq(std_stats, LAMBDA s : s \notin {STATS_RAW, STATS_ARRAYINFO})

\* The loop of drillstats.py:181-183.
RECURSIVE StdLoop(_, _)
StdLoop(stats, names) ==
    IF names = <<>> THEN stats
    ELSE StdLoop(DictSet(stats, Head(names),
                         std_stat_func(Head(names), stats[STATS_RAW].items)),
                 Tail(names))

\* The loop of drillstats.py:185-187.
RECURSIVE UserLoop(_, _, _, _)
UserLoop(stats, user_stats, itemVal, p) ==
    IF user_stats = <<>> THEN stats
    ELSE UserLoop(DictSet(stats, Head(user_stats).name,
                          stat_func(Head(user_stats).fn,
                                    stats[STATS_ARRAYINFO], itemVal, p)),
                  Tail(user_stats), itemVal, p)

\* PointStats.calc_stats(item_id, std_stats, user_stats) of point p.
\* Returns the new dict and the exception raised ("" when none).
calc_stats(is, p, item_id, std_stats, user_stats) ==
    IF item_id \notin DOMAIN is
    THEN [is |-> is, err |-> "KeyError", msg |-> {}]
    ELSE
      LET stats == is[item_id]
          item == stats[ITEM_KEY]
      IN  IF std_stats /= <<>> /\ check_std_arrays(stats[STATS_RAW].items)
          THEN [is |-> is, err |-> "MultibandAssetError",
                msg |-> errmsg(stats[STATS_RAW].items)]
          ELSE
            LET s1 == IF std_stats /= <<>>
                      THEN StdLoop(stats, stats_list(std_stats))
                      ELSE stats
                s2 == IF user_stats /= <<>>
                      THEN UserLoop(s1, user_stats, item, p)
                      ELSE s1
            IN  [is |-> DictSet(is, item_id, s2), err |-> "", msg |-> {}]

\* The absent argument (None; the empty string is as falsy).
NoArg == ""
\* [] if stat_name in STATS_STD else None
Sentinel(stat_name) ==
    IF InList(stat_name, STATS_STD) THEN ListVal(<<>>) ELSE NoneVal

\* PointStats.get_stats(item_id, stat_name): which of the four shapes is
\* returned, and the value.
get_stats(is, item_id, stat_name) ==
    IF item_id /= NoArg /\ stat_name /= NoArg
    THEN [shape |-> "value",
          val |-> IF item_id \in DOMAIN is /\ stat_name \in DOMAIN is[item_id]
                  THEN is[item_id][stat_name] ELSE Sentinel(stat_name),
          dict |-> EmptyDict, all |-> EmptyDict]
    ELSE IF item_id /= NoArg
    THEN [shape |-> "item", val |-> NoneVal,
          dict |-> IF item_id \in DOMAIN is THEN is[item_id] ELSE EmptyDict,
          all |-> EmptyDict]
    ELSE IF stat_name /= NoArg
    THEN [shape |-> "stat", val |-> NoneVal,
          dict |-> [id \in DOMAIN is |->
                      IF stat_name \in DOMAIN is[id] THEN is[id][stat_name]
                      ELSE Sentinel(stat_name)],
          all |-> EmptyDict]
    ELSE [shape |-> "all", val |-> NoneVal, dict |-> EmptyDict, all |-> is]

\* reset(item) clearing every identity of the point.
reset_clears_all(is, it) ==
    [id \in (DOMAIN is) \cup {it} |->
        CleanStats(IF id = it THEN ItemVal(it) ELSE is[id][ITEM_KEY])]
\* reset(item) emptying the two lists and keeping the computed statistics.
reset_keeps_stats(is, it) ==
    IF it \in DOMAIN is
    THEN DictSet(is, it, [is[it] EXCEPT ![ITEM_KEY] = ItemVal(it),
                                       ![STATS_RAW] = ListVal(<<>>),
                                       ![STATS_ARRAYINFO] = ListVal(<<>>)])
    ELSE DictSet(is, it, CleanStats(ItemVal(it)))
\* PointStats.reset(item).
reset(is, it) == DictSet(is, it, CleanStats(ItemVal(it)))
\* reset() replacing the dict by an empty one.
reset_all_drops(is) == EmptyDict
\* PointStats.reset() with no item.
reset_all(is) == [id \in DOMAIN is |-> CleanStats(is[id][ITEM_KEY])]

\* ------------------------------------------- image_reader.ImageReader
\* Python's None where a number is expected (no no-data value, no
\* ignore_val); pixel values and no-data values are not negative.
PyNone == -1
\* bool(v) of a number or None.
Truthy(v) == v /= PyNone /\ v /= 0

ROI_SHP_SQUARE == "square"
ROI_SHP_CIRCLE == "circle"

\* Pixel size of the rasters of the model, in map units (x_res = y_res).
Res == 4
\* ImageInfo of a north-up raster whose lower-left corner is the origin.
ImageInfo(ncols, nrows, nodataval) ==
    [ncols |-> ncols, nrows |-> nrows, raster_count |-> Len(nodataval),
     x_min |-> 0, y_max |-> nrows * Res, x_res |-> Res, y_res |-> Res,
     nodataval |-> nodataval]
\* The rasters of the model: single-band and two-band, the second band of
\* the latter and the band of the third with no no-data value; and a raster
\* one pixel wide, narrower than the boxes of the larger buffers.
Images ==
    { ImageInfo(3, 2, <<9>>), ImageInfo(2, 2, <<9, PyNone>>),
      ImageInfo(2, 3, <<PyNone>>), ImageInfo(1, 2, <<9>>) }
\* The value stored in band b at pixel (col, row), counted from 0.
PixelValue(b, col, row) == <<0, 7, 9, 5>>[((col + 2 * row + b) % 4) + 1]

\* math.floor and math.ceil of the fraction num / den, den > 0.
Floor(num, den) == num \div den
Ceil(num, den) == -((-num) \div den)
\* wld2pix: the pixel coordinates of a map position, as fractions over the
\* pixel size.
wld2pix(info, geox, geoy) ==
    [x |-> [num |-> geox - info.x_min, den |-> info.x_res],
     y |-> [num |-> info.y_max - geoy, den |-> info.y_res]]
\* pix2wld: the map position of the upper-left corner of pixel (x, y).
pix2wld(info, x, y) ==
    [x |-> info.x_min + x * info.x_res, y |-> info.y_max - y * info.y_res]

Window(xoff, yoff, win_xsize, win_ysize) ==
    [xoff |-> xoff, yoff |-> yoff, win_xsize |-> win_xsize,
     win_ysize |-> win_ysize]

\* The test of the zero-buffer branch (image_reader.py:461-462).
in_grid(info, ul_px, ul_py) ==
    ul_px >= 0 /\ ul_px <= info.ncols /\ ul_py >= 0 /\ ul_py <= info.nrows

\* image_reader.py:445-449: the clipping of the columns.
clip_x(ul_px, win_xsize, ncols) ==
    IF ul_px < 0 THEN [ul |-> 0, win |-> win_xsize + ul_px]
    ELSE IF ul_px + win_xsize > ncols THEN [ul |-> ul_px, win |-> ncols - ul_px]
    ELSE [ul |-> ul_px, win |-> win_xsize]
\* image_reader.py:450-454: the clipping of the rows.
clip_y(ul_py, win_ysize, nrows) ==
    IF ul_py < 0 THEN [ul |-> 0, win |-> win_ysize + ul_py]
    ELSE IF ul_py + win_ysize >= nrows THEN [ul |-> ul_py, win |-> nrows - ul_py]
    ELSE [ul |-> ul_py, win |-> win_ysize]

\* ImageReader.get_pix_window(pt); pt.c_x, pt.c_y and pt.buffer are what
\* pt.transform and pt.change_buffer_units return for the image's CRS.
get_pix_window(info, pt) ==
    IF pt.buffer > 0
    THEN LET ul == wld2pix(info, pt.c_x - pt.buffer, pt.c_y + pt.buffer)
             lr == wld2pix(info, pt.c_x + pt.buffer, pt.c_y - pt.buffer)
             ul_px == Floor(ul.x.num, ul.x.den)
             ul_py == Floor(ul.y.num, ul.y.den)
             lr_px == Ceil(lr.x.num, lr.x.den)
             lr_py == Ceil(lr.y.num, lr.y.den)
             cx == clip_x(ul_px, lr_px - ul_px, info.ncols)
             cy == clip_y(ul_py, lr_py - ul_py, info.nrows)
         IN  Window(cx.ul, cy.ul, cx.win, cy.win)
    ELSE LET c == wld2pix(info, pt.c_x, pt.c_y)
             ul_px == Floor(c.x.num, c.x.den)
             ul_py == Floor(c.y.num, c.y.den)
         IN  IF in_grid(info, ul_px, ul_py)
             THEN Window(ul_px, ul_py, 1, 1)
             ELSE Window(ul_px, ul_py, 0, 0)

\* A numpy masked array: its shape and, per band, row and column, the
\* value and the mask bit of the pixel.
MaskedArray(shape, px) == [shape |-> shape, px |-> px]
\* numpy.ma.masked_array([], mask=True)
EmptyArray == MaskedArray(<<0>>, <<>>)
\* arr.size: the number of elements, bands included.
Size(arr) ==
    IF Len(arr.shape) = 1 THEN arr.shape[1]
    ELSE arr.shape[1] * arr.shape[2] * arr.shape[3]

\* nodata_val = ignore_val if ignore_val else self.info.nodataval[idx]
NodataVal(info, ignore_val, idx) ==
    IF Truthy(ignore_val) THEN ignore_val ELSE info.nodataval[idx]

\* The window is inside the raster (GDAL raises RuntimeError when asked to
\* read a window that is not).
InRaster(info, w) ==
    /\ w.xoff >= 0 /\ w.yoff >= 0
    /\ w.xoff + w.win_xsize <= info.ncols
    /\ w.yoff + w.win_ysize <= info.nrows

\* The loop over the bands of read_roi: band.ReadAsArray and the null mask.
ReadBands(info, w, ignore_val) ==
    MaskedArray(<<info.raster_count, w.win_ysize, w.win_xsize>>,
        [b \in 1..info.raster_count |->
          [y \in 1..w.win_ysize |->
            [x \in 1..w.win_xsize |->
              LET v == PixelValue(b, w.xoff + x - 1, w.yoff + y - 1)
                  nodata_val == NodataVal(info, ignore_val, b)
              IN  [val |-> v,
                   mask |-> nodata_val /= PyNone /\ v = nodata_val]]]])

\* image_reader.ArrayInfo as the reader builds it.
RoiArrayInfo(info, data, w) ==
    [data |-> data, xoff |-> w.xoff, yoff |-> w.yoff,
     win_xsize |-> w.win_xsize, win_ysize |-> w.win_ysize,
     ulx |-> pix2wld(info, w.xoff, w.yoff).x,
     uly |-> pix2wld(info, w.xoff, w.yoff).y,
     x_res |-> info.x_res, y_res |-> info.y_res]

\* outside(lower, right) at row ys, column xs of the window (from 0): the
\* corner of the pixel is outside the circle.
outside(arr_info, pt, lower, right, ys, xs) ==
    LET y == arr_info.uly - (ys + lower) * arr_info.y_res
        x == arr_info.ulx + (xs + right) * arr_info.x_res
    IN  (y - pt.c_y) * (y - pt.c_y) + (x - pt.c_x) * (x - pt.c_x)
            > pt.buffer * pt.buffer
\* px_outside: all four corners are outside.
px_outside(arr_info, pt, ys, xs) ==
    /\ outside(arr_info, pt, 0, 0, ys, xs)
    /\ outside(arr_info, pt, 0, 1, ys, xs)
    /\ outside(arr_info, pt, 1, 0, ys, xs)
    /\ outside(arr_info, pt, 1, 1, ys, xs)

\* The loop over the bands of mask_roi_shape, for the first n bands.  The
\* rasters hold integers: assigning None to their pixels raises TypeError,
\* and the bands before stay masked.
RECURSIVE MaskBands(_, _, _, _, _)
MaskBands(info, pt, arr_info, ignore_val, n) ==
    IF n = 0 THEN [arr_info |-> arr_info, err |-> ""]
    ELSE LET prev == MaskBands(info, pt, arr_info, ignore_val, n - 1)
             nodata_val == NodataVal(info, ignore_val, n)
             a == prev.arr_info
             band == [y \in 1..a.data.shape[2] |->
                       [x \in 1..a.data.shape[3] |->
                          IF px_outside(a, pt, y - 1, x - 1)
                          THEN [val |-> nodata_val, mask |-> TRUE]
                          ELSE a.data.px[n][y][x]]]
         IN  IF prev.err /= "" THEN prev
             ELSE IF nodata_val = PyNone
             THEN [arr_info |-> a, err |-> "TypeError"]
             ELSE [arr_info |-> [a EXCEPT !.data.px[n] = band], err |-> ""]

\* mask_roi_shape masking the square footprints as the circular ones.
mask_roi_shape_any(info, pt, arr_info, ignore_val) ==
    IF Size(arr_info.data) < 5
    THEN [arr_info |-> arr_info, err |-> "ImageReaderError"]
    ELSE MaskBands(info, pt, arr_info, ignore_val, arr_info.data.shape[1])
\* ImageReader.mask_roi_shape(pt, arr_info, ignore_val): arr_info after the
\* call and the exception raised ("" when none).
mask_roi_shape(info, pt, arr_info, ignore_val) ==
    IF pt.shape = ROI_SHP_SQUARE THEN [arr_info |-> arr_info, err |-> ""]
    ELSE IF pt.shape = ROI_SHP_CIRCLE
    THEN IF Size(arr_info.data) < 5
         THEN [arr_info |-> arr_info, err |-> "ImageReaderError"]
         ELSE MaskBands(info, pt, arr_info, ignore_val,
                        arr_info.data.shape[1])
    ELSE [arr_info |-> arr_info, err |-> "ImageReaderError"]

\* ImageReader.read_roi(pt, ignore_val): the ArrayInfo returned, the array
\* as it was before mask_roi_shape, and the exception raised.
read_roi(info, pt, ignore_val) ==
    LET w == get_pix_window(info, pt)
        nonempty == w.win_xsize > 0 /\ w.win_ysize > 0
        m_arr == IF nonempty /\ InRaster(info, w)
                 THEN ReadBands(info, w, ignore_val) ELSE EmptyArray
        arr_info == RoiArrayInfo(info, m_arr, w)
        shaped == IF Size(m_arr) > 4
                  THEN mask_roi_shape(info, pt, arr_info, ignore_val)
                  ELSE [arr_info |-> arr_info, err |-> ""]
    IN  IF nonempty /\ ~InRaster(info, w)
        THEN [arr_info |-> arr_info, read |-> m_arr, err |-> "RuntimeError"]
        ELSE [arr_info |-> shaped.arr_info, read |-> m_arr,
              err |-> shaped.err]

\* arr.count(): the number of elements that are not masked.
count(arr) ==
    IF Len(arr.shape) = 1 THEN 0
    ELSE Cardinality({ i \in (1..arr.shape[1]) \X (1..arr.shape[2])
                                \X (1..arr.shape[3]) :
                          ~arr.px[i[1]][i[2]][i[3]].mask })
\* arr.mask.sum(): the number of mask bits that are set.
mask_sum(arr) ==
    IF Len(arr.shape) = 1 THEN 0
    ELSE Cardinality({ i \in (1..arr.shape[1]) \X (1..arr.shape[2])
                                \X (1..arr.shape[3]) :
                          arr.px[i[1]][i[2]][i[3]].mask })
\* std_stat_count counting every element.
std_stat_count_all(asset_arrays) ==
    [i \in 1..Len(asset_arrays) |-> Size(asset_arrays[i])]
\* drillstats.std_stat_count and std_stat_countnull.
std_stat_count(asset_arrays) ==
    [i \in 1..Len(asset_arrays) |-> count(asset_arrays[i])]
std_stat_countnull(asset_arrays) ==
    [i \in 1..Len(asset_arrays) |-> mask_sum(asset_arrays[i])]

\* The reader's variables while no raster is open.
NoImage == ImageInfo(0, 0, <<>>)
NoPoint == [c_x |-> 0, c_y |-> 0, buffer |-> 0, shape |-> ROI_SHP_SQUARE]
\* roi: the method called, its ignore_val, the window and the ArrayInfo it
\* returned, the array before it was masked to the shape, the exception
\* raised, and the counts computed from <<before, arr_info.data>>.
NoRoi ==
    [op |-> "", ignore_val |-> PyNone, win |-> Window(0, 0, 0, 0),
     arr_info |-> RoiArrayInfo(NoImage, EmptyArray, Window(0, 0, 0, 0)),
     before |-> EmptyArray, err |-> "", count |-> <<>>, countnull |-> <<>>]

\* ArrayInfo.isempty()
isempty(arr_info) == Size(arr_info.data) = 0

\* Where the points of the store lie: p1 inside the rasters, p2 left of
\* them, its box touching no pixel.
PointGeom(p) ==
    IF p = "p1"
    THEN [c_x |-> 6, c_y |-> 2, buffer |-> 1, shape |-> ROI_SHP_SQUARE]
    ELSE [c_x |-> -4, c_y |-> 2, buffer |-> 1, shape |-> ROI_SHP_SQUARE]
\* The raster behind a channel.
AssetImage(a) ==
    IF RasterCount(a) = 2 THEN ImageInfo(2, 2, <<9, PyNone>>)
    ELSE ImageInfo(3, 2, <<9>>)
\* What read_roi returns for the points of the store, per channel: the
\* rasters and the points stay where they are for the whole run.
InitReads ==
    reads = [a \in {"a1", "a2", "mb", NoAsset} |->
                [p \in Points |->
                    isempty(read_roi(AssetImage(a), PointGeom(p),
                                     PyNone).arr_info)]]
\* The ArrayInfo that read_roi returns for channel a of item it and point
\* p, as the store holds it: which array it is, and whether it is empty.
ArrayInfo(it, a, p) ==
    [tag |-> "info", item |-> it, asset |-> a, pt |-> p,
     empty |-> reads[a][p]]

\* --------------------------------------------- drillpoints.ItemDriller
\* The store and its history variable, threaded through the loops.
World(st, h) == [store |-> st, hist |-> h]

\* pt.stats.add_data(item, arr_info) for point p.
AddRec(w, p, it, rec) ==
    World([w.store EXCEPT ![p] = add_data(@, it, rec)],
          [w.hist EXCEPT ![p][it] = Append(@, rec)])

\* pt.stats.reset(item=item) for point p.
ResetRec(w, p, it) ==
    World([w.store EXCEPT ![p] = reset(@, it)],
          [w.hist EXCEPT ![p][it] = <<>>])

\* The loop of ImageReader.read_data leaving out the points whose array is
\* empty.
RECURSIVE ReaderReadData_skips_empty(_, _, _, _, _)
ReaderReadData_skips_empty(w, it, a, pts, n) ==
    IF n = 0 THEN w
    ELSE LET prev == ReaderReadData_skips_empty(w, it, a, pts, n - 1)
             arr_info == ArrayInfo(it, a, pts[n])
         IN  IF arr_info.empty THEN prev
             ELSE AddRec(prev, pts[n], it, arr_info)
\* ImageReader.read_data: the first n iterations of its loop over points
\* (read_roi, then add_data).
RECURSIVE ReaderReadData(_, _, _, _, _)
ReaderReadData(w, it, a, pts, n) ==
    IF n = 0 THEN w
    ELSE AddRec(ReaderReadData(w, it, a, pts, n - 1), pts[n], it,
                ArrayInfo(it, a, pts[n]))

\* The first n iterations of the loop over asset_ids (drillpoints.py:513).
RECURSIVE ReadAssets(_, _, _, _, _)
ReadAssets(w, it, asset_ids, pts, n) ==
    IF n = 0 THEN w
    ELSE ReaderReadData(ReadAssets(w, it, asset_ids, pts, n - 1), it,
                        asset_ids[n], pts, Len(pts))

\* ItemDriller.reset_stats: pt.stats.reset(item) for the first n points.
RECURSIVE reset_stats(_, _, _, _)
reset_stats(w, it, pts, n) ==
    IF n = 0 THEN w
    ELSE ResetRec(reset_stats(w, it, pts, n - 1), pts[n], it)

\* Where the raster layer raises RuntimeError during a read_data call:
\* k = 0: nowhere; otherwise at channel k, when opening it (j = 0) or when
\* reading the window of the j-th point of the batch.
NoFail == [k |-> 0, j |-> 0]
Fails(dr) ==
    {NoFail} \cup
    { [k |-> k, j |-> j] :
        k \in 1..(IF IsImageItem(dr.item) THEN 1 ELSE Len(dr.asset_ids)),
        j \in 0..Len(dr.points) }

\* ignore_val: None or a single number (isList = FALSE), or a list.
IgnoreVals ==
    { [isList |-> FALSE, len |-> 0], [isList |-> TRUE, len |-> 1],
      [isList |-> TRUE, len |-> 2] }

\* The state when the RuntimeError of fail is raised: channels before k are
\* read for every point, channel k for the points before j.
StateAtFailure(w, dr, asset_ids, fail) ==
    LET before == ReadAssets(w, dr.item, asset_ids, dr.points, fail.k - 1)
    IN  IF fail.j = 0 THEN before
        ELSE ReaderReadData(before, dr.item, asset_ids[fail.k], dr.points,
                            fail.j - 1)

\* The except RuntimeError clauses (drillpoints.py:486-492, 517-524).
Rollback(w, dr) == reset_stats(w, dr.item, dr.points, Len(dr.points))

\* ItemDriller.read_data(ignore_val).  res is the returned bool, or the
\* exception that leaves the call.
read_data(w, dr, ignore_val, fail) ==
    IF IsImageItem(dr.item)
    THEN \* reader = ImageReader(self.item) is outside the try statement.
         IF fail.k = 1 /\ fail.j = 0
         THEN [w |-> w, res |-> "RuntimeError"]
         ELSE IF ignore_val.isList
         THEN [w |-> w, res |-> "ItemDrillerError"]
         ELSE IF fail.k = 0
         THEN [w |-> ReaderReadData(w, dr.item, NoAsset, dr.points,
                                    Len(dr.points)),
               res |-> "True"]
         ELSE [w |-> Rollback(StateAtFailure(w, dr, <<NoAsset>>, fail), dr),
               res |-> "False"]
    ELSE IF dr.asset_ids_none
         THEN [w |-> w, res |-> "ItemDrillerError"]
         ELSE IF ignore_val.isList /\ ignore_val.len /= Len(dr.asset_ids)
         THEN [w |-> w, res |-> "ItemDrillerError"]
         ELSE IF fail.k = 0
         THEN [w |-> ReadAssets(w, dr.item, dr.asset_ids, dr.points,
                                Len(dr.asset_ids)),
               res |-> "True"]
         ELSE [w |-> Rollback(StateAtFailure(w, dr, dr.asset_ids, fail), dr),
               res |-> "False"]

\* ItemDriller.calc_stats: the loop over self.points, up to the first
\* exception.  Returns the store and the exception ("" when none).
RECURSIVE driller_calc_stats(_, _, _, _, _)
driller_calc_stats(st, dr, std_stats, user_stats, n) ==
    IF n = 0 THEN [store |-> st, err |-> ""]
    ELSE LET prev == driller_calc_stats(st, dr, std_stats, user_stats, n - 1)
             p == dr.points[n]
             r == calc_stats(prev.store[p], p, dr.item, std_stats, user_stats)
         IN  IF prev.err /= "" THEN prev
             ELSE [store |-> [prev.store EXCEPT ![p] = r.is], err |-> r.err]

\* ------------------------------------------------------- the calls made
UserStat(name, fn) == [name |-> name, fn |-> fn]
\* The (std_stats, user_stats) arguments of the model: standard statistics
\* alone and with a user statistic, and user statistics under a fresh name,
\* under a standard name and under the reserved keys.
StatArgs ==
    { [std |-> <<STATS_MEAN>>, user |-> <<>>],
      [std |-> <<STATS_RAW, STATS_COUNT, STATS_COUNTNULL>>,
       user |-> <<UserStat("USER_RANGE", "user_range")>>],
      [std |-> <<STATS_MEAN>>, user |-> <<UserStat(STATS_MEAN, "user_range")>>],
      [std |-> <<>>, user |-> <<UserStat(STATS_RAW, "user_total")>>],
      [std |-> <<>>, user |-> <<UserStat(ITEM_KEY, "user_total")>>] }
\* The arrays passed to add_data directly.
AddAssets(it) == IF IsImageItem(it) THEN {NoAsset} ELSE {"a1", "mb"}
\* stat_name arguments of get_stats.
StatNames == { NoArg, STATS_RAW, STATS_MEAN, STATS_COUNTNULL, "USER_RANGE" }

\* twin.phase: "off" (no comparison), "history" (the store is being used),
\* "adds" and "done" (after the reset: the calls of S are made on the store
\* and on twin.is, a store in which the identity was never populated).
\* twin.had: the keys of the identity's entry when reset was called.
NoTwin == [phase |-> "off", p |-> "", id |-> "", is |-> EmptyDict, n |-> 0,
           had |-> {}]

NoRet == [shape |-> "", val |-> NoneVal, dict |-> EmptyDict,
          all |-> EmptyDict]
\* A call: the method, the points and the identity it is aimed at (NoArg:
\* all of them), the stat_name argument of get_stats, the outcome (returned
\* bool or exception), the array indices named by the message of a
\* MultibandAssetError, and the value get_stats returned.
Call(op, pts, id, res, ret) ==
    [op |-> op, pts |-> pts, id |-> id, name |-> NoArg, res |-> res,
     msg |-> {}, ret |-> ret]

\* No pool, no create_*_drillers call and no change_buffer_units call yet.
NoPool == [tasks |-> <<>>, ran |-> <<>>, shutdown |-> FALSE]
NoBuilt ==
    [op |-> "", points |-> <<>>, images |-> <<>>,
     image_ids |-> [given |-> FALSE, ids |-> <<>>], search |-> <<>>,
     nearest_n |-> 0, err |-> "", drillers |-> <<>>]
NoCrs == [op |-> "", pt |-> <<>>, dst_srs |-> "", err |-> "", buffer |-> <<>>]
InitSide == pool = NoPool /\ built = NoBuilt /\ crs = NoCrs

\* The drillers as built by create_stac_drillers / create_image_drillers.
InitDrillers ==
    [it \in AllItems |->
        [item |-> it,
         asset_ids_none |-> IsImageItem(it),
         asset_ids |-> IF IsImageItem(it) THEN <<>> ELSE <<"a1", "a2">>,
         points |-> <<"p1", "p2">>]]

InitStore ==
    /\ store = [p \in Points |-> EmptyDict]
    /\ hist = [p \in Points |-> [it \in AllItems |-> <<>>]]
    /\ drillers = InitDrillers
    /\ last = Call("init", {}, NoArg, "", NoRet)
    /\ ops = 0
    /\ twin = NoTwin
    /\ image = NoImage /\ point = NoPoint /\ roi = NoRoi
    /\ InitReads
    /\ InitSide

Init ==
    /\ InitStore
    /\ drillPc = "idle"
    /\ drillIdx = 0
    /\ drillArgs = [std_stats |-> <<>>, user_stats |-> <<>>,
                    ignore_val |-> [isList |-> FALSE, len |-> 0],
                    concurrent |-> FALSE]
    /\ drillLog = <<>>

\* PointStats.add_data
AddData(p, it, a) ==
    /\ ops < MaxOps
    /\ LET w == AddRec(World(store, hist), p, it, ArrayInfo(it, a, p))
       IN  store' = w.store /\ hist' = w.hist
    /\ last' = Call("add_data", {p}, it, "", NoRet)
    /\ ops' = ops + 1
    /\ UNCHANGED <<drillers, drillVars, twin, readerVars, sideVars>>

\* PointStats.calc_stats
CalcStats(p, id, std_stats, user_stats) ==
    /\ ops < MaxOps
    /\ LET r == calc_stats(store[p], p, id, std_stats, user_stats)
       IN  /\ store' = [store EXCEPT ![p] = r.is]
           /\ last' = [Call("calc_stats", {p}, id, r.err, NoRet)
                           EXCEPT !.msg = r.msg]
    /\ ops' = ops + 1
    /\ UNCHANGED <<hist, drillers, drillVars, twin, readerVars, sideVars>>

\* PointStats.reset(item)
Reset(p, it) ==
    /\ ops < MaxOps
    /\ LET w == ResetRec(World(store, hist), p, it)
       IN  store' = w.store /\ hist' = w.hist
    /\ last' = Call("reset", {p}, it, "", NoRet)
    /\ ops' = ops + 1
    /\ UNCHANGED <<drillers, drillVars, twin, readerVars, sideVars>>

\* PointStats.reset()
ResetAll(p) ==
    /\ ops < MaxOps
    /\ store' = [store EXCEPT ![p] = reset_all(@)]
    /\ hist' = [hist EXCEPT ![p] = [it \in AllItems |-> <<>>]]
    /\ last' = Call("reset_all", {p}, NoArg, "", NoRet)
    /\ ops' = ops + 1
    /\ UNCHANGED <<drillers, drillVars, twin, readerVars, sideVars>>

\* PointStats.get_stats
GetStats(p, id, stat_name) ==
    /\ ops < MaxOps
    /\ last' = [Call("get_stats", {p}, id, "",
                      get_stats(store[p], id, stat_name))
                    EXCEPT !.name = stat_name]
    /\ ops' = ops + 1
    /\ UNCHANGED <<store, hist, drillers, drillVars, twin, readerVars, sideVars>>

\* ItemDriller.read_data
ReadData(it, ignore_val, fail) ==
    /\ ops < MaxOps
    /\ LET r == read_data(World(store, hist), drillers[it], ignore_val, fail)
       IN  /\ store' = r.w.store
           /\ hist' = r.w.hist
           /\ last' = Call("read_data", Range(drillers[it].points), it, r.res,
                           NoRet)
    /\ ops' = ops + 1
    /\ UNCHANGED <<drillers, drillVars, twin, readerVars, sideVars>>

\* ItemDriller.calc_stats
DrillerCalcStats(it, std_stats, user_stats) ==
    /\ ops < MaxOps
    /\ LET dr == drillers[it]
           r == driller_calc_stats(store, dr, std_stats, user_stats,
                                   Len(dr.points))
       IN  /\ store' = r.store
           /\ last' = Call("driller_calc_stats", Range(dr.points), it, r.err,
                           NoRet)
    /\ ops' = ops + 1
    /\ UNCHANGED <<hist, drillers, drillVars, twin, readerVars, sideVars>>

\* ItemDriller.reset_stats
ResetStats(it) ==
    /\ ops < MaxOps
    /\ LET w == Rollback(World(store, hist), drillers[it])
       IN  store' = w.store /\ hist' = w.hist
    /\ last' = Call("reset_stats", Range(drillers[it].points), it, "", NoRet)
    /\ ops' = ops + 1
    /\ UNCHANGED <<drillers, drillVars, twin, readerVars, sideVars>>

Next ==
    \/ \E p \in Points, it \in Items : \E a \in AddAssets(it) : AddData(p, it, a)
    \/ \E p \in Points, id \in Items, c \in StatArgs :
          CalcStats(p, id, c.std, c.user)
    \/ \E p \in Points, it \in Items : Reset(p, it)
    \/ \E p \in Points : ResetAll(p)
    \/ \E p \in Points, id \in Items \cup {NoArg}, n \in StatNames :
          GetStats(p, id, n)
    \/ \E it \in Items, iv \in IgnoreVals : \E f \in Fails(drillers[it]) :
          ReadData(it, iv, f)
    \/ \E it \in Items, c \in StatArgs :
          DrillerCalcStats(it, c.std, c.user)
    \/ \E it \in Items : ResetStats(it)

Spec == Init /\ [][Next]_vars

\* ------------------------------------------------------------ drill.drill
\* The list drill() builds: the catalog drillers, then the image drillers.
DrillOrder == <<"X", "IMG", "IMG2">>

DrillArgs ==
    { [std_stats |-> c.std, user_stats |-> c.user, ignore_val |-> iv,
       concurrent |-> cc] :
        c \in StatArgs, iv \in IgnoreVals, cc \in BOOLEAN }

InitDrill ==
    /\ InitStore
    /\ drillPc = "idle"
    /\ drillIdx = 0
    /\ drillArgs \in DrillArgs
    /\ drillLog = <<>>

\* drill() is entered; the drillers are built.
DrillStart ==
    /\ drillPc = "idle"
    /\ drillPc' = "extract"
    /\ UNCHANGED <<store, hist, drillers, last, ops, drillIdx, drillArgs,
                   drillLog, twin, readerVars, sideVars>>

\* drill.calc_stats(driller, ...): read_data, then ItemDriller.calc_stats.
\* An exception that leaves either of them leaves calc_stats.
extract(w, dr, args, fail) ==
    LET r == read_data(w, dr, args.ignore_val, fail)
        c == driller_calc_stats(r.w.store, dr, args.std_stats,
                                args.user_stats, Len(dr.points))
    IN  IF r.res \notin {"True", "False"}
        THEN [w |-> r.w, read |-> r.res, calc |-> "", err |-> r.res]
        ELSE [w |-> World(c.store, r.w.hist), read |-> r.res,
              calc |-> IF c.err = "" THEN "ok" ELSE c.err, err |-> c.err]

\* One iteration of the loop over the drillers (drill.py:238-242 and
\* 245-248).  With concurrent=True the argument of executor.submit is the
\* call calc_stats(dr, ...) itself, so the extract step runs in the thread
\* of drill() before anything is submitted, as it does with
\* concurrent=False.
Extract(fail) ==
    /\ drillPc = "extract"
    /\ drillIdx < Len(DrillOrder)
    /\ LET dr == drillers[DrillOrder[drillIdx + 1]]
           r == extract(World(store, hist), dr, drillArgs, fail)
       IN  /\ fail \in Fails(dr)
           /\ store' = r.w.store
           /\ hist' = r.w.hist
           /\ drillLog' = Append(drillLog,
                                 [item |-> dr.item, fail |-> fail,
                                  read |-> r.read, calc |-> r.calc])
           /\ drillPc' = IF r.err = "" THEN "extract" ELSE "raised"
           /\ drillIdx' = IF r.err = "" THEN drillIdx + 1 ELSE drillIdx
    /\ UNCHANGED <<drillers, last, ops, drillArgs, twin, readerVars, sideVars>>

\* The loop is over: drill() returns.
DrillReturn ==
    /\ drillPc = "extract"
    /\ drillIdx = Len(DrillOrder)
    /\ drillPc' = "done"
    /\ UNCHANGED <<store, hist, drillers, last, ops, drillIdx, drillArgs,
                   drillLog, twin, readerVars, sideVars>>

NextDrill ==
    \/ DrillStart
    \/ \E k \in 0..2, j \in 0..2 : Extract([k |-> k, j |-> j])
    \/ DrillReturn

SpecDrill == InitDrill /\ [][NextDrill]_vars

\* ------------------------------------------- reset, then add and compute
\* One identity of one point is used (any adds and computes), then reset;
\* after the reset the same add_data calls and the same calc_stats call are
\* made on the store and on twin.is, where the identity was never populated.
InitReset ==
    /\ store = [p \in Points |-> EmptyDict]
    /\ hist = [p \in Points |-> [it \in AllItems |-> <<>>]]
    /\ drillers = InitDrillers
    /\ last = Call("init", {}, NoArg, "", NoRet)
    /\ ops = 0
    /\ twin \in { [NoTwin EXCEPT !.phase = "history", !.p = p, !.id = id] :
                     p \in Points, id \in Items }
    /\ image = NoImage /\ point = NoPoint /\ roi = NoRoi
    /\ InitReads
    /\ InitSide
    /\ drillPc = "idle"
    /\ drillIdx = 0
    /\ drillArgs = [std_stats |-> <<>>, user_stats |-> <<>>,
                    ignore_val |-> [isList |-> FALSE, len |-> 0],
                    concurrent |-> FALSE]
    /\ drillLog = <<>>

HistAdd(a) ==
    /\ twin.phase = "history"
    /\ twin.n < MaxHist
    /\ LET w == AddRec(World(store, hist), twin.p, twin.id,
                       ArrayInfo(twin.id, a, twin.p))
       IN  store' = w.store /\ hist' = w.hist
    /\ last' = Call("add_data", {twin.p}, twin.id, "", NoRet)
    /\ twin' = [twin EXCEPT !.n = @ + 1]
    /\ UNCHANGED <<drillers, ops, drillVars, readerVars, sideVars>>

HistCalc(std_stats, user_stats) ==
    /\ twin.phase = "history"
    /\ twin.n < MaxHist
    /\ LET r == calc_stats(store[twin.p], twin.p, twin.id, std_stats,
                           user_stats)
       IN  /\ store' = [store EXCEPT ![twin.p] = r.is]
           /\ last' = Call("calc_stats", {twin.p}, twin.id, r.err, NoRet)
    /\ twin' = [twin EXCEPT !.n = @ + 1]
    /\ UNCHANGED <<hist, drillers, ops, drillVars, readerVars, sideVars>>

\* reset(item) on the used store; the twin starts from an empty store.
ResetThen ==
    /\ twin.phase = "history"
    /\ LET w == ResetRec(World(store, hist), twin.p, twin.id)
       IN  store' = w.store /\ hist' = w.hist
    /\ last' = Call("reset", {twin.p}, twin.id, "", NoRet)
    /\ twin' = [twin EXCEPT !.phase = "adds", !.n = 0, !.is = EmptyDict,
                            !.had = IF twin.id \in DOMAIN store[twin.p]
                                    THEN DOMAIN store[twin.p][twin.id]
                                    ELSE {}]
    /\ UNCHANGED <<drillers, ops, drillVars, readerVars, sideVars>>

\* The same add_data call on both.
BothAdd(a) ==
    /\ twin.phase = "adds"
    /\ twin.n < MaxAdds
    /\ LET rec == ArrayInfo(twin.id, a, twin.p)
           w == AddRec(World(store, hist), twin.p, twin.id, rec)
       IN  /\ store' = w.store
           /\ hist' = w.hist
           /\ twin' = [twin EXCEPT !.n = @ + 1,
                                   !.is = add_data(@, twin.id, rec)]
    /\ last' = Call("add_data", {twin.p}, twin.id, "", NoRet)
    /\ UNCHANGED <<drillers, ops, drillVars, readerVars, sideVars>>

\* The same calc_stats call on both, after at least one add_data.
BothCalc(std_stats, user_stats) ==
    /\ twin.phase = "adds"
    /\ twin.n >= 1
    /\ LET r == calc_stats(store[twin.p], twin.p, twin.id, std_stats,
                           user_stats)
           t == calc_stats(twin.is, twin.p, twin.id, std_stats, user_stats)
       IN  /\ store' = [store EXCEPT ![twin.p] = r.is]
           /\ last' = Call("calc_stats", {twin.p}, twin.id, r.err, NoRet)
           /\ twin' = [twin EXCEPT !.phase = "done", !.is = t.is]
    /\ UNCHANGED <<hist, drillers, ops, drillVars, readerVars, sideVars>>

NextReset ==
    \/ \E a \in AddAssets(twin.id) : HistAdd(a)
    \/ \E c \in StatArgs : HistCalc(c.std, c.user)
    \/ ResetThen
    \/ \E a \in AddAssets(twin.id) : BothAdd(a)
    \/ \E c \in StatArgs : BothCalc(c.std, c.user)

SpecReset == InitReset /\ [][NextReset]_vars

\* ------------------------------------------------ calls on the reader
\* The points a raster is read around: centres inside, on the edges of and
\* outside the raster, with and without a buffer.
ReaderPoints(info) ==
    [c_x : (-MaxMargin)..(info.ncols * Res + MaxMargin),
     c_y : (-MaxMargin)..(info.nrows * Res + MaxMargin),
     buffer : 0..MaxBuffer,
     shape : {ROI_SHP_SQUARE, ROI_SHP_CIRCLE}]
\* ignore_val arguments: None, zero and another pixel value.
ReaderIgnoreVals == {PyNone, 0, 7}

InitReader ==
    /\ store = [p \in Points |-> EmptyDict]
    /\ hist = [p \in Points |-> [it \in AllItems |-> <<>>]]
    /\ drillers = InitDrillers
    /\ last = Call("init", {}, NoArg, "", NoRet)
    /\ ops = 0
    /\ twin = NoTwin
    /\ drillPc = "idle"
    /\ drillIdx = 0
    /\ drillArgs = [std_stats |-> <<>>, user_stats |-> <<>>,
                    ignore_val |-> [isList |-> FALSE, len |-> 0],
                    concurrent |-> FALSE]
    /\ drillLog = <<>>
    /\ image \in Images
    /\ point \in ReaderPoints(image)
    /\ roi = NoRoi
    /\ InitReads
    /\ InitSide

\* ImageReader.get_pix_window(pt)
GetPixWindow ==
    /\ roi' = [NoRoi EXCEPT !.op = "get_pix_window",
                            !.win = get_pix_window(image, point)]
    /\ UNCHANGED <<store, hist, drillers, last, ops, drillVars, twin, image,
                   point, reads, sideVars>>

\* ImageReader.read_roi(pt, ignore_val)
ReadRoi(ignore_val) ==
    /\ LET r == read_roi(image, point, ignore_val)
       IN  roi' = [NoRoi EXCEPT !.op = "read_roi",
                                !.ignore_val = ignore_val,
                                !.win = get_pix_window(image, point),
                                !.arr_info = r.arr_info,
                                !.before = r.read,
                                !.err = r.err]
    /\ UNCHANGED <<store, hist, drillers, last, ops, drillVars, twin, image,
                   point, reads, sideVars>>

\* ImageReader.mask_roi_shape(pt, arr_info, ignore_val), called on the
\* ArrayInfo that read_roi returned.
MaskRoiShape(ignore_val) ==
    /\ roi.op = "read_roi" /\ roi.err = ""
    /\ LET r == mask_roi_shape(image, point, roi.arr_info, ignore_val)
       IN  roi' = [roi EXCEPT !.op = "mask_roi_shape",
                              !.ignore_val = ignore_val,
                              !.before = roi.arr_info.data,
                              !.arr_info = r.arr_info,
                              !.err = r.err]
    /\ UNCHANGED <<store, hist, drillers, last, ops, drillVars, twin, image,
                   point, reads, sideVars>>

\* std_stat_count and std_stat_countnull on the arrays held, which
\* check_std_arrays lets through.
CountStats ==
    /\ roi.op \in {"read_roi", "mask_roi_shape"} /\ roi.err = ""
    /\ LET asset_arrays == <<roi.before, roi.arr_info.data>>
       IN  /\ \A i \in 1..Len(asset_arrays) : asset_arrays[i].shape[1] <= 1
           /\ roi' = [roi EXCEPT !.op = "std_stats",
                                 !.count = std_stat_count(asset_arrays),
                                 !.countnull =
                                     std_stat_countnull(asset_arrays)]
    /\ UNCHANGED <<store, hist, drillers, last, ops, drillVars, twin, image,
                   point, reads, sideVars>>

NextReader ==
    \/ GetPixWindow
    \/ \E iv \in ReaderIgnoreVals : ReadRoi(iv)
    \/ \E iv \in ReaderIgnoreVals : MaskRoiShape(iv)
    \/ CountStats

SpecReader == InitReader /\ [][NextReader]_vars

\* ------------------------------------------ drill.drill, concurrent=True
\* The points of the drillers of a run: every driller holds both points, or
\* the drillers share some of them, or one driller holds none.
PoolDrillers ==
    { [it \in AllItems |-> [InitDrillers[it] EXCEPT !.points = pts[it]]] :
        pts \in { [it \in AllItems |-> <<"p1", "p2">>],
                  [it \in AllItems |->
                      IF it = "X" THEN <<"p1">>
                      ELSE IF it = "IMG" THEN <<"p1", "p2">> ELSE <<"p2">>],
                  [it \in AllItems |->
                      IF it = "IMG" THEN <<>> ELSE <<"p2", "p1">>] } }

\* What drill.py:239-242 passes to executor.submit for driller dr: the value
\* of the call calc_stats(dr, ...), which is None (drill.py:414-415 return
\* nothing).
submitted_callable(dr) == "calc_stats"
submitted(dr) == "None"

\* ThreadPoolExecutor.submit(fn): a work item on the executor's queue.
WorkItem(fn, it) == [fn |-> fn, item |-> it, state |-> "queued", exc |-> ""]
AllDone == \A i \in 1..Len(pool.tasks) : pool.tasks[i].state = "done"

InitPool ==
    /\ store = [p \in Points |-> EmptyDict]
    /\ hist = [p \in Points |-> [it \in AllItems |-> <<>>]]
    /\ drillers \in PoolDrillers
    /\ last = Call("init", {}, NoArg, "", NoRet)
    /\ ops = 0
    /\ twin = NoTwin
    /\ image = NoImage /\ point = NoPoint /\ roi = NoRoi
    /\ InitReads
    /\ InitSide
    /\ drillPc = "idle"
    /\ drillIdx = 0
    /\ drillArgs \in DrillArgs
    /\ drillLog = <<>>

\* One iteration of the loop of drill.py:238-242, in the thread of drill():
\* the argument calc_stats(dr, ...) is evaluated, which runs the extract
\* step, and its value is submitted.  An exception of the call leaves the
\* with statement, whose exit waits for the work items.
SubmitExtract(fail) ==
    /\ drillPc = "extract"
    /\ drillArgs.concurrent
    /\ drillIdx < Len(DrillOrder)
    /\ LET dr == drillers[DrillOrder[drillIdx + 1]]
           r == extract(World(store, hist), dr, drillArgs, fail)
       IN  /\ fail \in Fails(dr)
           /\ store' = r.w.store
           /\ hist' = r.w.hist
           /\ drillLog' = Append(drillLog,
                                 [item |-> dr.item, fail |-> fail,
                                  read |-> r.read, calc |-> r.calc])
           /\ drillPc' = IF r.err = "" THEN "extract" ELSE "unwind"
           /\ drillIdx' = IF r.err = "" THEN drillIdx + 1 ELSE drillIdx
           /\ pool' = [pool EXCEPT
                         !.ran = Append(@, [item |-> dr.item,
                                            thread |-> "main"]),
                         !.tasks = IF r.err = ""
                                   THEN Append(@, WorkItem(submitted(dr),
                                                           dr.item))
                                   ELSE @]
    /\ UNCHANGED <<drillers, last, ops, drillArgs, twin, readerVars, built,
                   crs>>

\* The loop of drill.py:245-248.
SequentialExtract(fail) ==
    /\ ~drillArgs.concurrent
    /\ Extract(fail)

\* A worker thread takes the oldest work item off the queue.
WorkerTake(i) ==
    /\ i \in 1..Len(pool.tasks)
    /\ pool.tasks[i].state = "queued"
    /\ \A j \in 1..(i - 1) : pool.tasks[j].state /= "queued"
    /\ pool' = [pool EXCEPT !.tasks[i].state = "running"]
    /\ UNCHANGED <<store, hist, drillers, last, ops, drillVars, twin,
                   readerVars, built, crs>>

\* _WorkItem.run in a worker thread: fn() is called and what it raises is
\* kept in the future.  Calling None raises TypeError; a callable
\* calc_stats would run the extract step in the worker.
WorkerRun(i, fail) ==
    /\ i \in 1..Len(pool.tasks)
    /\ pool.tasks[i].state = "running"
    /\ LET t == pool.tasks[i]
           dr == drillers[t.item]
           r == extract(World(store, hist), dr, drillArgs, fail)
       IN  IF t.fn = "None"
           THEN /\ fail = NoFail
                /\ pool' = [pool EXCEPT !.tasks[i].state = "done",
                                        !.tasks[i].exc = "TypeError"]
                /\ UNCHANGED <<store, hist>>
           ELSE /\ fail \in Fails(dr)
                /\ store' = r.w.store
                /\ hist' = r.w.hist
                /\ pool' = [pool EXCEPT
                              !.tasks[i].state = "done",
                              !.tasks[i].exc = r.err,
                              !.ran = Append(@, [item |-> t.item,
                                                 thread |-> "worker"])]
    /\ UNCHANGED <<drillers, last, ops, drillVars, twin, readerVars, built,
                   crs>>

\* The with statement of drill.py:237 is left: shutdown(wait=True) returns
\* when every work item has run; then drill() returns, or the exception of
\* the loop goes on to the caller.
PoolExit ==
    /\ drillArgs.concurrent
    /\ \/ drillPc = "extract" /\ drillIdx = Len(DrillOrder)
       \/ drillPc = "unwind"
    /\ AllDone
    /\ drillPc' = IF drillPc = "unwind" THEN "raised" ELSE "done"
    /\ pool' = [pool EXCEPT !.shutdown = TRUE]
    /\ UNCHANGED <<store, hist, drillers, last, ops, drillIdx, drillArgs,
                   drillLog, twin, readerVars, built, crs>>

SequentialReturn ==
    /\ ~drillArgs.concurrent
    /\ DrillReturn

NextPool ==
    \/ DrillStart
    \/ \E k \in 0..2, j \in 0..2 : SubmitExtract([k |-> k, j |-> j])
    \/ \E k \in 0..2, j \in 0..2 : SequentialExtract([k |-> k, j |-> j])
    \/ \E i \in 1..Len(DrillOrder) : WorkerTake(i)
    \/ \E i \in 1..Len(DrillOrder), k \in 0..2, j \in 0..2 :
          WorkerRun(i, [k |-> k, j |-> j])
    \/ PoolExit
    \/ SequentialReturn

SpecPool == InitPool /\ [][NextPool]_vars

\* ------------------------------------ drill.create_*_drillers, grouping
\* The survey points of a create_*_drillers call: their centre in the CRS
\* of the images and their time.  q1 lies inside both images, q2 inside the
\* wider one only, q3 outside both, q4 on the corner of the narrower one.
BuildPoint(name) ==
    IF name = "q1" THEN [name |-> name, c_x |-> 6, c_y |-> 2, t |-> 1]
    ELSE IF name = "q2" THEN [name |-> name, c_x |-> 10, c_y |-> 2, t |-> 4]
    ELSE IF name = "q3" THEN [name |-> name, c_x |-> -4, c_y |-> 2, t |-> 1]
    ELSE [name |-> name, c_x |-> 8, c_y |-> 0, t |-> 4]
BuildPointNames == {"q1", "q2", "q3", "q4"}
\* The lists of at most n elements of S.
RECURSIVE ListsOf(_, _)
ListsOf(S, n) ==
    IF n = 0 THEN {<<>>}
    ELSE ListsOf(S, n - 1) \cup
         { Append(l, x) : l \in { m \in ListsOf(S, n - 1) : Len(m) = n - 1 },
                          x \in S }
NoRepeat(l) == \A i, j \in 1..Len(l) : l[i] = l[j] => i = j
\* The points argument: at most MaxPoints points, none given twice.
PointLists ==
    { [i \in 1..Len(l) |-> BuildPoint(l[i])] :
        l \in { m \in ListsOf(BuildPointNames, MaxPoints) : NoRepeat(m) } }

\* The image files of the model, "i1" and "i2", which gdal.Open opens, and
\* their grids.
PathInfo(path) ==
    IF path = "i1" THEN ImageInfo(3, 2, <<9>>)
    ELSE ImageInfo(2, 2, <<9, PyNone>>)
\* The images argument: a path can be listed twice.
ImageLists ==
    { <<>>, <<"i1">>, <<"i1", "i2">>, <<"i2", "i1">>, <<"i1", "i1">> }
\* The image_ids argument: None (given = FALSE) or a list of ids, as many
\* as images or not, with or without a repeated id, or with an empty id.
NoIds == [given |-> FALSE, ids |-> <<>>]
ImageIdLists ==
    {NoIds} \cup
    { [given |-> TRUE, ids |-> l] :
        l \in { <<>>, <<"a">>, <<"a", "b">>, <<"a", "a">>, <<"a", "b", "c">>,
                <<"a", "a", "b">>, <<NoArg, "b">> } }

\* The items of the catalog: ids are unique within a collection (src).
StacItem(id, collection, t) ==
    [kind |-> "stac", id |-> id, src |-> collection, t |-> t]
\* list(search.items()) for one point: no item is returned twice.
SearchResults ==
    { <<>>, <<StacItem("X", "c1", 0)>>,
      <<StacItem("X", "c1", 0), StacItem("Y", "c1", 5)>>,
      <<StacItem("Y", "c1", 5), StacItem("X", "c1", 0)>>,
      <<StacItem("X", "c1", 0), StacItem("X", "c2", 3)>> }

\* drill.ImageItem(filepath, id): if id: ... else filepath.
ImageItem(filepath, id) ==
    [kind |-> "image", id |-> IF id /= NoArg THEN id ELSE filepath,
     src |-> filepath, t |-> 0]
\* ItemDriller(item, asset_ids) for the drillers that create_*_drillers
\* build.
ItemDriller(item) == [item |-> item, points |-> <<>>]

\* Point.intersects(ds), in the CRS of the image.
intersects(pt, iinfo) ==
    LET x_max == iinfo.x_min + iinfo.ncols * iinfo.x_res
        y_min == iinfo.y_max - iinfo.nrows * iinfo.y_res
    IN  /\ pt.c_x >= iinfo.x_min /\ pt.c_x <= x_max
        /\ pt.c_y >= y_min /\ pt.c_y <= iinfo.y_max

\* zip(images, image_ids)
Min(a, b) == IF a <= b THEN a ELSE b
\* The test of drill.py:272-274: TRUE when PixelStacError is not raised.
accepts_ids(images, image_ids) ==
    image_ids.given => Len(images) = Cardinality(Range(image_ids.ids))
\* create_image_drillers(points, images, image_ids).
create_image_drillers(points, images, image_ids) ==
    IF ~accepts_ids(images, image_ids)
    THEN [err |-> "PixelStacError", drillers |-> <<>>]
    ELSE LET ids == IF image_ids.given THEN image_ids.ids
                    ELSE [i \in 1..Len(images) |-> NoArg]
         IN  [err |-> "",
              drillers |->
                 [i \in 1..Min(Len(images), Len(ids)) |->
                     [ItemDriller(ImageItem(images[i], ids[i])) EXCEPT
                        !.points =
                           SelectSeq(points, LAMBDA pt :
                                        intersects(pt, PathInfo(images[i])))]]]

\* drill._time_diff(item, pt), in the time unit of the model.
time_diff(item, pt) ==
    IF item.t >= pt.t THEN item.t - pt.t ELSE pt.t - item.t
\* sorted(items, key=sort_func): a stable sort.
RECURSIVE InsertSorted(_, _, _)
InsertSorted(l, x, pt) ==
    IF l = <<>> THEN <<x>>
    ELSE IF time_diff(Head(l), pt) <= time_diff(x, pt)
    THEN <<Head(l)>> \o InsertSorted(Tail(l), x, pt)
    ELSE <<x>> \o l
RECURSIVE sorted(_, _, _)
sorted(items, pt, n) ==
    IF n = 0 THEN <<>>
    ELSE InsertSorted(sorted(items, pt, n - 1), items[n], pt)
\* The items used for a point (drill.py:344-348).
Selected(items, pt, nearest_n) ==
    IF nearest_n > 0
    THEN SubSeq(sorted(items, pt, Len(items)), 1, Min(nearest_n, Len(items)))
    ELSE items

\* The position in the dict drillers of the driller keyed item_id, 0 when
\* there is none.
DrillerOf(drs, item_id) ==
    IF \E i \in 1..Len(drs) : drs[i].item.id = item_id
    THEN CHOOSE i \in 1..Len(drs) : drs[i].item.id = item_id
    ELSE 0
\* The loop of drill.py:350-354 adding pt to the driller of every item of
\* the list, without looking whether the driller holds pt already.
RECURSIVE GroupItems(_, _, _)
GroupItems(drs, pt, items) ==
    IF items = <<>> THEN drs
    ELSE LET item == Head(items)
             d1 == IF DrillerOf(drs, item.id) = 0
                   THEN Append(drs, ItemDriller(item)) ELSE drs
             k == DrillerOf(d1, item.id)
         IN  GroupItems([d1 EXCEPT ![k].points = Append(@, pt)], pt,
                        Tail(items))
\* create_stac_drillers: the first n iterations of the loop over points;
\* search[i] is what the catalog returns for points[i].
RECURSIVE create_stac_drillers(_, _, _, _)
create_stac_drillers(points, search, nearest_n, n) ==
    IF n = 0 THEN <<>>
    ELSE GroupItems(create_stac_drillers(points, search, nearest_n, n - 1),
                    points[n], Selected(search[n], points[n], nearest_n))

\* A create_*_drillers or drill call and what it built.
Built(op, points, images, image_ids, search, nearest_n, err, drs) ==
    [op |-> op, points |-> points, images |-> images,
     image_ids |-> image_ids, search |-> search, nearest_n |-> nearest_n,
     err |-> err, drillers |-> drs]

InitBuild ==
    /\ store = [p \in Points |-> EmptyDict]
    /\ hist = [p \in Points |-> [it \in AllItems |-> <<>>]]
    /\ drillers = InitDrillers
    /\ last = Call("init", {}, NoArg, "", NoRet)
    /\ ops = 0
    /\ twin = NoTwin
    /\ image = NoImage /\ point = NoPoint /\ roi = NoRoi
    /\ InitReads
    /\ InitSide
    /\ drillPc = "idle"
    /\ drillIdx = 0
    /\ drillArgs = [std_stats |-> <<>>, user_stats |-> <<>>,
                    ignore_val |-> [isList |-> FALSE, len |-> 0],
                    concurrent |-> FALSE]
    /\ drillLog = <<>>

\* create_image_drillers(points, images, image_ids)
CreateImageDrillers(points, images, image_ids) ==
    /\ built.op = ""
    /\ LET r == create_image_drillers(points, images, image_ids)
       IN  built' = Built("create_image_drillers", points, images, image_ids,
                          <<>>, 0, r.err, r.drillers)
    /\ UNCHANGED <<store, hist, drillers, last, ops, drillVars, twin,
                   readerVars, pool, crs>>

\* create_stac_drillers(client, points, collections, raster_assets,
\* item_properties, nearest_n)
CreateStacDrillers(points, search, nearest_n) ==
    /\ built.op = ""
    /\ Len(search) = Len(points)
    /\ built' = Built("create_stac_drillers", points, <<>>, NoIds, search,
                      nearest_n, "",
                      create_stac_drillers(points, search, nearest_n,
                                           Len(points)))
    /\ UNCHANGED <<store, hist, drillers, last, ops, drillVars, twin,
                   readerVars, pool, crs>>

\* drill.py:221-230: the catalog drillers when stac_endpoint is given, then
\* the image drillers when images is given, without ids.
DrillBuild(points, images, stac_endpoint, search, nearest_n) ==
    /\ built.op = ""
    /\ Len(search) = Len(points)
    /\ LET stac_drillers ==
               IF stac_endpoint
               THEN create_stac_drillers(points, search, nearest_n,
                                         Len(points))
               ELSE <<>>
           image_drillers ==
               IF images /= <<>>
               THEN create_image_drillers(points, images, NoIds).drillers
               ELSE <<>>
       IN  built' = Built("drill", points, images, NoIds,
                          IF stac_endpoint THEN search
                          ELSE [i \in 1..Len(points) |-> <<>>],
                          nearest_n, "", stac_drillers \o image_drillers)
    /\ UNCHANGED <<store, hist, drillers, last, ops, drillVars, twin,
                   readerVars, pool, crs>>

\* What the catalog returns for each point of a list.
SearchesFor(points) ==
    { s \in ListsOf(SearchResults, MaxPoints) : Len(s) = Len(points) }

\* One call is made in a behaviour.
NextBuild ==
    \/ /\ built.op = ""
       /\ \E points \in PointLists, images \in ImageLists,
             image_ids \in ImageIdLists :
             CreateImageDrillers(points, images, image_ids)
    \/ /\ built.op = ""
       /\ \E points \in PointLists, nearest_n \in 0..1 :
             \E search \in SearchesFor(points) :
                 CreateStacDrillers(points, search, nearest_n)
    \/ /\ built.op = ""
       /\ \E points \in PointLists, images \in ImageLists,
             stac_endpoint \in BOOLEAN :
             \E search \in SearchesFor(points) :
                 DrillBuild(points, images, stac_endpoint, search, 0)

SpecBuild == InitBuild /\ [][NextBuild]_vars

\* ------------------------------------- drillpoints.Point, buffer units
\* The class of a CRS: IsProjected(), IsGeographic(), or neither (a
\* geocentric or a local CRS).
CrsClasses == {"projected", "geographic", "other"}
\* int(x / 6.0) for a longitude x in whole degrees: int() truncates towards
\* zero.
IntDiv6(x) == IF x >= 0 THEN x \div 6 ELSE -((-x) \div 6)
\* Point.__init__ (drillpoints.py:140-142): the WGS84 longitude 180 is kept
\* as -180.
Wgs84X(lon) == IF lon = 180 THEN -180 ELSE lon
\* The EPSG code of drillpoints.py:279-282.
epsg_of(wgs84_x, wgs84_y) ==
    IF wgs84_y >= 0 THEN 32600 + IntDiv6(wgs84_x) + 31
    ELSE 32700 + IntDiv6(wgs84_x) + 31
\* What change_buffer_units returns: the buffer as it is (via = "asis"), or
\* the distance that _transformed_buffer measures in dst_srs starting from
\* the point's own CRS, from the UTM zone epsg, or from EPSG 4326.
Distance(via, epsg) == [via |-> via, epsg |-> epsg]
NoDistance == Distance("", 0)
\* change_buffer_units without the test of dst_srs at drillpoints.py:308.
change_buffer_units_any_dst(pt, dst_srs) ==
    IF ~pt.buffer_degrees /\ dst_srs = "geographic"
    THEN IF pt.sp_ref = "projected"
         THEN [err |-> "", buffer |-> Distance("sp_ref", 0)]
         ELSE IF pt.sp_ref = "geographic"
         THEN [err |-> "",
               buffer |-> Distance("utm", epsg_of(pt.wgs84_x, pt.wgs84_y))]
         ELSE [err |-> "PointError", buffer |-> NoDistance]
    ELSE IF pt.buffer_degrees /\ dst_srs = "projected"
    THEN IF pt.sp_ref = "projected"
         THEN [err |-> "", buffer |-> Distance("wgs84", 4326)]
         ELSE IF pt.sp_ref = "geographic"
         THEN [err |-> "", buffer |-> Distance("sp_ref", 0)]
         ELSE [err |-> "PointError", buffer |-> NoDistance]
    ELSE [err |-> "", buffer |-> Distance("asis", 0)]
\* Point.change_buffer_units(dst_srs).
change_buffer_units(pt, dst_srs) ==
    IF ~pt.buffer_degrees /\ dst_srs = "geographic"
    THEN IF pt.sp_ref = "projected"
         THEN [err |-> "", buffer |-> Distance("sp_ref", 0)]
         ELSE IF pt.sp_ref = "geographic"
         THEN [err |-> "",
               buffer |-> Distance("utm", epsg_of(pt.wgs84_x, pt.wgs84_y))]
         ELSE [err |-> "PointError", buffer |-> NoDistance]
    ELSE IF pt.buffer_degrees /\ dst_srs = "projected"
    THEN IF pt.sp_ref = "projected"
         THEN [err |-> "", buffer |-> Distance("wgs84", 4326)]
         ELSE IF pt.sp_ref = "geographic"
         THEN [err |-> "", buffer |-> Distance("sp_ref", 0)]
         ELSE [err |-> "PointError", buffer |-> NoDistance]
    ELSE IF ~(dst_srs = "projected" \/ dst_srs = "geographic")
    THEN [err |-> "PointError", buffer |-> NoDistance]
    ELSE [err |-> "", buffer |-> Distance("asis", 0)]

\* The points of SpecCrs: every whole longitude, both hemispheres and the
\* equator, linear and angular buffers, every class of CRS.
CrsPoints ==
    [sp_ref : CrsClasses, buffer_degrees : BOOLEAN,
     wgs84_x : { Wgs84X(lon) : lon \in (-180)..180 },
     wgs84_y : {-45, 0, 45}]

InitCrs ==
    /\ store = [p \in Points |-> EmptyDict]
    /\ hist = [p \in Points |-> [it \in AllItems |-> <<>>]]
    /\ drillers = InitDrillers
    /\ last = Call("init", {}, NoArg, "", NoRet)
    /\ ops = 0
    /\ twin = NoTwin
    /\ image = NoImage /\ point = NoPoint /\ roi = NoRoi
    /\ InitReads
    /\ pool = NoPool /\ built = NoBuilt
    /\ drillPc = "idle"
    /\ drillIdx = 0
    /\ drillArgs = [std_stats |-> <<>>, user_stats |-> <<>>,
                    ignore_val |-> [isList |-> FALSE, len |-> 0],
                    concurrent |-> FALSE]
    /\ drillLog = <<>>
    /\ \E pt \in CrsPoints :
          crs = [op |-> "Point", pt |-> pt, dst_srs |-> "", err |-> "",
                 buffer |-> NoDistance]

\* pt.change_buffer_units(dst_srs)
ChangeBufferUnits(dst_srs) ==
    /\ crs.op = "Point"
    /\ LET r == change_buffer_units(crs.pt, dst_srs)
       IN  crs' = [crs EXCEPT !.op = "change_buffer_units",
                              !.dst_srs = dst_srs,
                              !.err = r.err,
                              !.buffer = r.buffer]
    /\ UNCHANGED <<store, hist, drillers, last, ops, drillVars, twin,
                   readerVars, pool, built>>

NextCrs == \E dst_srs \in CrsClasses : ChangeBufferUnits(dst_srs)

SpecCrs == InitCrs /\ [][NextCrs]_vars

\* ------------------------------------------- ItemDriller configuration
\* The asset_ids arguments of the constructor and of set_asset_ids: None,
\* the empty list and lists of one and two ids.
AssetIdArgs ==
    { [none |-> TRUE, ids |-> <<>>], [none |-> FALSE, ids |-> <<>>],
      [none |-> FALSE, ids |-> <<"a1">>],
      [none |-> FALSE, ids |-> <<"a1", "a2">>] }

\* ItemDriller.__init__(item, asset_ids): the new driller, or the exception.
ItemDriller_init(it, asset_ids) ==
    IF IsImageItem(it) /\ ~asset_ids.none
    THEN [err |-> "ItemDrillerError", dr |-> << >>]
    ELSE [err |-> "",
          dr |-> [item |-> it, asset_ids_none |-> asset_ids.none,
                  asset_ids |-> asset_ids.ids, points |-> <<>>]]

\* not asset_ids
not_asset_ids(asset_ids) == asset_ids.none \/ asset_ids.ids = <<>>

\* ItemDriller.set_asset_ids(asset_ids) on the driller dr.
set_asset_ids(dr, asset_ids) ==
    IF IsImageItem(dr.item)
    THEN [err |-> "ItemDrillerError", dr |-> dr]
    ELSE IF not_asset_ids(asset_ids)
    THEN [err |-> "ItemDrillerError", dr |-> dr]
    ELSE [err |-> "",
          dr |-> [dr EXCEPT !.asset_ids_none = FALSE,
                            !.asset_ids = asset_ids.ids]]

\* The drillers right after create_stac_drillers and create_image_drillers
\* returned them: ItemDriller(item) with the points added, no asset ids.
ConfigDrillers ==
    [it \in AllItems |->
        [item |-> it, asset_ids_none |-> TRUE, asset_ids |-> <<>>,
         points |-> <<"p1", "p2">>]]

InitConfig ==
    /\ store = [p \in Points |-> EmptyDict]
    /\ hist = [p \in Points |-> [it \in AllItems |-> <<>>]]
    /\ drillers = ConfigDrillers
    /\ last = Call("init", {}, NoArg, "", NoRet)
    /\ ops = 0
    /\ twin = NoTwin
    /\ image = NoImage /\ point = NoPoint /\ roi = NoRoi
    /\ InitReads
    /\ InitSide
    /\ drillPc = "idle"
    /\ drillIdx = 0
    /\ drillArgs = [std_stats |-> <<>>, user_stats |-> <<>>,
                    ignore_val |-> [isList |-> FALSE, len |-> 0],
                    concurrent |-> FALSE]
    /\ drillLog = <<>>

\* driller = ItemDriller(item, asset_ids): on success the new object takes
\* the place of the item's driller.
Construct(it, asset_ids) ==
    /\ ops < MaxOps
    /\ LET r == ItemDriller_init(it, asset_ids)
       IN  /\ drillers' = IF r.err = "" THEN [drillers EXCEPT ![it] = r.dr]
                          ELSE drillers
           /\ last' = Call("ItemDriller", {}, it, r.err, NoRet)
    /\ ops' = ops + 1
    /\ UNCHANGED <<store, hist, drillVars, twin, readerVars, sideVars>>

\* ItemDriller.set_asset_ids
SetAssetIds(it, asset_ids) ==
    /\ ops < MaxOps
    /\ LET r == set_asset_ids(drillers[it], asset_ids)
       IN  /\ drillers' = [drillers EXCEPT ![it] = r.dr]
           /\ last' = Call("set_asset_ids", {}, it, r.err, NoRet)
    /\ ops' = ops + 1
    /\ UNCHANGED <<store, hist, drillVars, twin, readerVars, sideVars>>

\* ItemDriller.add_point
AddPoint(it, p) ==
    /\ ops < MaxOps
    /\ Len(drillers[it].points) < MaxPoints
    /\ drillers' = [drillers EXCEPT ![it].points = Append(@, p)]
    /\ last' = Call("add_point", {p}, it, "", NoRet)
    /\ ops' = ops + 1
    /\ UNCHANGED <<store, hist, drillVars, twin, readerVars, sideVars>>

NextConfig ==
    \/ \E it \in Items, a \in AssetIdArgs : Construct(it, a)
    \/ \E it \in Items, a \in AssetIdArgs : SetAssetIds(it, a)
    \/ \E it \in Items, p \in Points : AddPoint(it, p)
    \/ \E it \in Items, iv \in IgnoreVals : \E f \in Fails(drillers[it]) :
          ReadData(it, iv, f)

SpecConfig == InitConfig /\ [][NextConfig]_vars

\* ============================================================ properties
Registered(p) == DOMAIN store[p]
RawList(p, id) == store[p][id][STATS_RAW]
InfoList(p, id) == store[p][id][STATS_ARRAYINFO]
\* An entry with empty raw-array and array-record lists and nothing else
\* but the item.
IsClean(e) ==
    /\ DOMAIN e = {ITEM_KEY, STATS_RAW, STATS_ARRAYINFO}
    /\ e[STATS_RAW] = ListVal(<<>>)
    /\ e[STATS_ARRAYINFO] = ListVal(<<>>)
\* The raster layer raised RuntimeError during the last read_data call.
RasterRaised == last.op = "read_data" /\ last.res \in {"False", "RuntimeError"}

\* C1: when the raster layer raises RuntimeError during read_data, read_data
\* returns False and the identity's entry of every point of the batch is
\* left with empty raw-array and array-record lists and no statistic.
C1_RollbackOnFailedRead ==
    RasterRaised =>
        /\ last.res = "False"
        /\ \A p \in last.pts :
              /\ last.id \in Registered(p)
              /\ IsClean(store[p][last.id])

\* C2: a RuntimeError of the raster layer, raised when the raster is opened
\* or when a window is read, never leaves read_data, for a catalog item and
\* for a plain image alike.
C2_IOErrorBecomesStatus ==
    last.op = "read_data" => last.res /= "RuntimeError"

\* C3: in a drill() run, the failed read of a driller never ends the run at
\* that driller: the extract steps of the drillers after it are executed
\* and, when the loop is over, every driller has been gone through.
FailedReads ==
    {i \in 1..Len(drillLog) : drillLog[i].read \in {"False", "RuntimeError"}}
C3_FailureIsolation ==
    \A i \in FailedReads :
        /\ drillPc = "raised" => Len(drillLog) > i
        /\ drillPc = "done" => Len(drillLog) = Len(DrillOrder)

\* C5: for every registered identity the raw-array list and the
\* array-record list have the same length, the number of add_data calls made
\* for the identity since its last reset.
C5_EqualLength ==
    \A p \in Points : \A id \in Registered(p) :
        /\ Len(RawList(p, id).items) = Len(InfoList(p, id).items)
        /\ Len(InfoList(p, id).items) = Len(hist[p][id])

\* C6: a user statistic never replaces what is stored under a standard
\* statistic name or under a reserved key: those keys hold the item, the
\* raw-array list, the array-record list and the standard values.
C6_UserNeverOverwrites ==
    \A p \in Points : \A id \in Registered(p) :
        LET e == store[p][id]
        IN  /\ e[ITEM_KEY].kind = "item"
            /\ e[STATS_RAW].kind = "list"
            /\ e[STATS_ARRAYINFO].kind = "list"
            /\ \A k \in (DOMAIN e) \cap STD_STATS_FUNCS : e[k].kind = "ndarray"

\* C7: for every registered identity, the i-th array record is the one of
\* the i-th add_data call since the last reset and the i-th raw array is
\* its data.
C7_ChannelOrder ==
    \A p \in Points : \A id \in Registered(p) :
        /\ InfoList(p, id).items = hist[p][id]
        /\ RawList(p, id).items =
              [i \in 1..Len(hist[p][id]) |-> DataOf(hist[p][id][i])]

\* C8: get_stats returns the stored value when there is one, and otherwise
\* an empty list for a standard statistic, 'raw' and 'arrayinfo' and None
\* for a user statistic; with stat_name alone the mapping has exactly the
\* registered identities as keys; with an unregistered item_id alone it
\* returns {}.
DocSentinel(stat_name) ==
    IF stat_name \in STD_STATS_FUNCS \cup {STATS_RAW, STATS_ARRAYINFO}
    THEN ListVal(<<>>) ELSE NoneVal
DocValue(is, id, stat_name) ==
    IF id \in DOMAIN is /\ stat_name \in DOMAIN is[id]
    THEN is[id][stat_name] ELSE DocSentinel(stat_name)
C8_Sentinels ==
    last.op = "get_stats" =>
        \A p \in last.pts :
            /\ (last.id /= NoArg /\ last.name /= NoArg) =>
                  last.ret.val = DocValue(store[p], last.id, last.name)
            /\ (last.id = NoArg /\ last.name /= NoArg) =>
                  /\ DOMAIN last.ret.dict = Registered(p)
                  /\ \A id \in Registered(p) :
                        last.ret.dict[id] = DocValue(store[p], id, last.name)
            /\ (last.id /= NoArg /\ last.name = NoArg
                  /\ last.id \notin Registered(p)) =>
                  DOMAIN last.ret.dict = {}

\* C4: a call aimed at one identity of some points (add_data, calc_stats,
\* reset, read_data with its rollback, and the driller's calc_stats and
\* reset_stats) leaves the entry of every other identity, and of every other
\* point, as it was, and get_stats returns for them what it returned before.
AimedOps ==
    {"add_data", "calc_stats", "reset", "read_data", "driller_calc_stats",
     "reset_stats"}
EntryUntouched(p, y) ==
    /\ (y \in DOMAIN store'[p]) <=> (y \in DOMAIN store[p])
    /\ y \in DOMAIN store[p] => store'[p][y] = store[p][y]
    /\ \A n \in {NoArg, STATS_RAW, STATS_MEAN} :
          get_stats(store'[p], y, n) = get_stats(store[p], y, n)
C4_Frame ==
    [][ last'.op \in AimedOps =>
          \A p \in Points : \A y \in AllItems :
              (p \notin last'.pts \/ y /= last'.id) => EntryUntouched(p, y)
      ]_vars
\* A read of X has failed and was rolled back while a point of the batch
\* holds arrays and a computed mean for another identity.
C4_Witness ==
    /\ last.op = "read_data" /\ last.res = "False" /\ last.id = "X"
    /\ \E p \in last.pts :
          /\ "IMG" \in Registered(p)
          /\ Len(RawList(p, "IMG").items) > 0
          /\ STATS_MEAN \in DOMAIN store[p]["IMG"]

Offending(p, id) ==
    { i - 1 : i \in { j \in 1..Len(RawList(p, id).items) :
                        Shape0(RawList(p, id).items[j]) > 1 } }

C12_WindowInsideGrid ==
    roi.op = "get_pix_window" =>
        /\ roi.win.xoff >= 0
        /\ roi.win.yoff >= 0
        /\ roi.win.xoff + roi.win.win_xsize <= image.ncols
        /\ roi.win.yoff + roi.win.win_ysize <= image.nrows

\* The box of the point lies beyond one of the four sides of the raster.
RoiOutside ==
    LET x_max == image.x_min + image.ncols * image.x_res
        y_min == image.y_max - image.nrows * image.y_res
    IN  \/ point.c_x + point.buffer < image.x_min
        \/ point.c_x - point.buffer > x_max
        \/ point.c_y - point.buffer > image.y_max
        \/ point.c_y + point.buffer < y_min

C14_ZeroBuffer ==
    (roi.op = "get_pix_window" /\ point.buffer = 0) =>
        LET col == Floor(point.c_x - image.x_min, image.x_res)
            row == Floor(image.y_max - point.c_y, image.y_res)
        IN  IF col >= 0 /\ col < image.ncols /\ row >= 0 /\ row < image.nrows
            THEN roi.win = Window(col, row, 1, 1)
            ELSE roi.win.win_xsize = 0 /\ roi.win.win_ysize = 0

\* ------------------------------------------- one record per channel
\* Number of array records, and of raw arrays, that point p holds for id.
NumRecords(st, p, id) ==
    IF id \in DOMAIN st[p] THEN Len(st[p][id][STATS_ARRAYINFO].items) ELSE 0
NumRaw(st, p, id) ==
    IF id \in DOMAIN st[p] THEN Len(st[p][id][STATS_RAW].items) ELSE 0
\* The window of point p in the raster of channel a has no width or no
\* height.
ZeroWindow(a, p) ==
    LET w == get_pix_window(AssetImage(a), PointGeom(p))
    IN  w.win_xsize = 0 \/ w.win_ysize = 0

\* C15: after a read_data call that returns True on a driller of k channels
\* (its asset_ids, or the one raster of a plain image), every point of the
\* batch holds k more array records and k more raw arrays for the identity
\* than before: one per channel, in the order of the channels, and an empty
\* array where the window of the point has no width or no height.
C15_OneRecordPerChannel ==
    [][ \A it \in Items, iv \in IgnoreVals :
        \A f \in Fails(drillers[it]) :
          ( /\ last'.op = "read_data" /\ last'.res = "True"
            /\ last'.id = it
            /\ ReadData(it, iv, f) ) =>
            LET chans == IF IsImageItem(it) THEN <<NoAsset>>
                         ELSE drillers[it].asset_ids
                k == Len(chans)
            IN  \A p \in Range(drillers[it].points) :
                  LET n == NumRecords(store, p, it)
                      infos == store'[p][it][STATS_ARRAYINFO].items
                      raws == store'[p][it][STATS_RAW].items
                  IN  /\ it \in DOMAIN store'[p]
                      /\ Len(infos) = n + k
                      /\ Len(raws) = NumRaw(store, p, it) + k
                      /\ \A c \in 1..k :
                            /\ infos[n + c].asset = chans[c]
                            /\ infos[n + c].pt = p
                            /\ ZeroWindow(chans[c], p) => infos[n + c].empty
      ]_vars
\* A read of two channels returned True for a batch with a point whose
\* window has no width: the point holds two empty arrays.
C15_Witness ==
    /\ last.op = "read_data" /\ last.res = "True"
    /\ \E p \in last.pts :
          /\ ZeroWindow("a1", p)
          /\ Len(RawList(p, last.id).items) = 2
          /\ \A i \in 1..2 : RawList(p, last.id).items[i].empty

\* ------------------------------------------------- masking to the shape
\* C16: for a point whose shape is square, mask_roi_shape (called by
\* read_roi or directly) raises nothing and leaves the values and the mask
\* of the record's array as they were before the call.
C16_SquareNeverMasked ==
    (point.shape = ROI_SHP_SQUARE /\ roi.op \in {"read_roi", "mask_roi_shape"})
        => /\ roi.arr_info.data = roi.before
           /\ roi.op = "mask_roi_shape" => roi.err = ""
\* mask_roi_shape was called for a square point on an array of more than 4
\* pixels, one of which has its four corners farther from the centre than
\* the buffer.
C16_Witness ==
    /\ point.shape = ROI_SHP_SQUARE
    /\ roi.op = "mask_roi_shape"
    /\ Size(roi.arr_info.data) > 4
    /\ \E y \in 1..roi.arr_info.win_ysize, x \in 1..roi.arr_info.win_xsize :
          /\ px_outside(roi.arr_info, point, y - 1, x - 1)
          /\ ~roi.arr_info.data.px[1][y][x].mask

\* The null value that applies to band b: ignore_val when it is given (not
\* None), the band's own no-data value otherwise.
Applicable(b) ==
    IF roi.ignore_val /= PyNone THEN roi.ignore_val ELSE image.nodataval[b]
\* mask_roi_shape has worked on the array of a circular footprint.
CircleMasked ==
    /\ point.shape = ROI_SHP_CIRCLE
    /\ \/ roi.op = "mask_roi_shape"
       \/ roi.op = "read_roi" /\ Size(roi.before) > 4
    /\ Size(roi.before) > 4

\* C17: for a circular footprint, mask_roi_shape excludes a pixel of the
\* window (mask set in every band, value set to the null value that applies
\* to the band) if and only if its four corners are all strictly farther
\* from the centre than the radius; every other pixel keeps the value and
\* the mask it had after the read.
C17_CircleByCorners ==
    CircleMasked =>
        /\ roi.err = ""
        /\ \A b \in 1..roi.before.shape[1], y \in 1..roi.before.shape[2],
              x \in 1..roi.before.shape[3] :
              roi.arr_info.data.px[b][y][x] =
                  IF px_outside(roi.arr_info, point, y - 1, x - 1)
                  THEN [val |-> Applicable(b), mask |-> TRUE]
                  ELSE roi.before.px[b][y][x]

\* Number of pixels of the window an array covers (0 for the empty array).
NumPixels(arr) == IF Len(arr.shape) = 1 THEN 0 ELSE arr.shape[2] * arr.shape[3]

\* C18: for a circular footprint whose window holds 4 pixels or fewer,
\* whatever the number of bands, read_roi raises no error and masks no
\* pixel because of the shape, and mask_roi_shape called directly raises
\* the insufficient-pixels error and leaves the record unchanged.
C18_SmallWindowsBypass ==
    (point.shape = ROI_SHP_CIRCLE /\ NumPixels(roi.before) <= 4) =>
        /\ (roi.op = "read_roi" /\ roi.err /= "RuntimeError") =>
              roi.err = "" /\ roi.arr_info.data = roi.before
        /\ roi.op = "mask_roi_shape" =>
              roi.err = "ImageReaderError" /\ roi.arr_info.data = roi.before

\* ------------------------------------------------------- the null value
\* Number of bands of an array (0 for the empty array).
Shape0Of(arr) == IF Len(arr.shape) = 1 THEN 0 ELSE arr.shape[1]
\* C19: the null mask that read_roi builds marks, in every band, exactly
\* the pixels equal to ignore_val when ignore_val is given (any number, 0
\* included), and exactly the pixels equal to the band's own no-data value
\* (none when the band has no such value) when ignore_val is None; the
\* pixels that mask_roi_shape excludes are set to that same value.
C19_NullOverride ==
    /\ (roi.op = "read_roi" /\ roi.err /= "RuntimeError") =>
          \A b \in 1..Shape0Of(roi.before), y \in 1..roi.arr_info.win_ysize,
             x \in 1..roi.arr_info.win_xsize :
                roi.before.px[b][y][x].mask =
                    ( /\ Applicable(b) /= PyNone
                      /\ PixelValue(b, roi.arr_info.xoff + x - 1,
                                    roi.arr_info.yoff + y - 1)
                            = Applicable(b) )
    /\ (CircleMasked /\ roi.err = "") =>
          \A b \in 1..roi.before.shape[1], y \in 1..roi.before.shape[2],
             x \in 1..roi.before.shape[3] :
                px_outside(roi.arr_info, point, y - 1, x - 1) =>
                    roi.arr_info.data.px[b][y][x].val = Applicable(b)

\* ------------------------------------------------- valid and null counts
\* The arrays the counts of roi were computed from.
CountedArrays == <<roi.before, roi.arr_info.data>>
\* Every element of the array is masked.
FullyMasked(arr) ==
    Len(arr.shape) = 1 \/
        \A b \in 1..arr.shape[1], y \in 1..arr.shape[2],
           x \in 1..arr.shape[3] : arr.px[b][y][x].mask

\* C20: for a list of single-band masked arrays, empty and fully masked
\* ones included, std_stat_count and std_stat_countnull return one number
\* per array, the two add up to the number of elements of the array, and
\* the count of an empty or fully masked array is 0.
C20_CountsPartition ==
    roi.op = "std_stats" =>
        /\ Len(roi.count) = Len(CountedArrays)
        /\ Len(roi.countnull) = Len(CountedArrays)
        /\ \A i \in 1..Len(CountedArrays) :
              /\ roi.count[i] + roi.countnull[i] = Size(CountedArrays[i])
              /\ FullyMasked(CountedArrays[i]) => roi.count[i] = 0
\* Counts of an array that has masked and unmasked pixels, some of them
\* masked because of the circular shape.
C20_Witness ==
    /\ roi.op = "std_stats"
    /\ roi.count[2] > 0 /\ roi.countnull[2] > 0
    /\ roi.countnull[2] > roi.countnull[1]
\* ------------------------------------------------ drill with a thread pool
\* The store and the exception after drill(concurrent=False) has gone
\* through the first n drillers, with the raster failures of log.
RECURSIVE SequentialRun(_, _, _)
SequentialRun(args, log, n) ==
    IF n = 0
    THEN [w |-> World([p \in Points |-> EmptyDict],
                      [p \in Points |-> [it \in AllItems |-> <<>>]]),
          err |-> ""]
    ELSE LET prev == SequentialRun(args, log, n - 1)
             r == extract(prev.w, drillers[DrillOrder[n]], args, log[n].fail)
         IN  IF prev.err /= "" THEN prev ELSE [w |-> r.w, err |-> r.err]
\* drill() has returned or raised.
DrillLeft == drillPc \in {"done", "raised"}

C22_OneTaskPerIdentity ==
    drillArgs.concurrent =>
        /\ \A i \in 1..Len(pool.ran) : pool.ran[i].thread = "worker"
        /\ \A i \in 1..Len(pool.tasks) :
              /\ pool.tasks[i].fn = "calc_stats"
              /\ pool.tasks[i].item = DrillOrder[i]
        /\ drillPc = "done" =>
              /\ Len(pool.tasks) = Len(DrillOrder)
              /\ AllDone

\* ------------------------------------------------- the drillers of a run
DrillerIds == [i \in 1..Len(built.drillers) |-> built.drillers[i].item.id]
\* The number of drillers of the run that read point pt for identity id.
ReadsOf(pt, id) ==
    Cardinality({ i \in 1..Len(built.drillers) :
                    /\ built.drillers[i].item.id = id
                    /\ InList(pt, built.drillers[i].points) })

\* C23: in a drill() run, with any list of images and with or without a
\* catalog search, no two drillers have the same item id, so that the entry
\* of a point for an identity is written by one extract step only.
C23_DistinctIdentities ==
    built.op = "drill" =>
        /\ NoRepeat(DrillerIds)
        /\ \A i \in 1..Len(built.points), id \in Range(DrillerIds) :
              ReadsOf(built.points[i], id) <= 1

\* ------------------------------------------------------------- grouping
\* The ids of the items selected for the i-th point of the call.
SelectedIds(i) ==
    { it.id : it \in Range(Selected(built.search[i], built.points[i],
                                     built.nearest_n)) }
\* The position of pt in the points argument.
PosIn(pt) == CHOOSE i \in 1..Len(built.points) : built.points[i] = pt
\* l lists some of the points of the call, each once, in input order.
InInputOrder(l) ==
    /\ NoRepeat(l)
    /\ \A a, b \in 1..Len(l) : a < b => PosIn(l[a]) < PosIn(l[b])
\* The centre of pt lies within the extent of the image at path.
WithinExtent(pt, path) ==
    /\ 0 <= pt.c_x /\ pt.c_x <= PathInfo(path).ncols * Res
    /\ 0 <= pt.c_y /\ pt.c_y <= PathInfo(path).nrows * Res

\* C25: create_stac_drillers returns one driller per item id selected for
\* at least one point; a point is in the list of a driller exactly when
\* the item was selected for it, it is there once, and the points are in
\* input order.  create_image_drillers returns one driller per image, whose
\* points are the input points whose centre lies within the image's extent.
C25_Grouping ==
    /\ built.op = "create_stac_drillers" =>
          /\ NoRepeat(DrillerIds)
          /\ Range(DrillerIds) =
                UNION { SelectedIds(i) : i \in 1..Len(built.points) }
          /\ \A k \in 1..Len(built.drillers) :
                LET d == built.drillers[k]
                IN  /\ \A i \in 1..Len(built.points) :
                          InList(built.points[i], d.points)
                              <=> d.item.id \in SelectedIds(i)
                    /\ InInputOrder(d.points)
    /\ (built.op = "create_image_drillers" /\ built.err = "") =>
          /\ Len(built.drillers) = Len(built.images)
          /\ \A k \in 1..Len(built.drillers) :
                /\ k <= Len(built.images)
                /\ built.drillers[k].item.src = built.images[k]
                /\ built.drillers[k].points =
                      SelectSeq(built.points,
                                LAMBDA pt : WithinExtent(pt, built.images[k]))

\* ---------------------------------------------------------- image ids
\* C27: create_image_drillers with image_ids raises PixelStacError when
\* the number of ids differs from the number of images or an id is
\* repeated, and otherwise returns one driller per image, with the given
\* ids in order; it never returns two drillers with the same id; without
\* image_ids the id of each driller is its image path.
C27_ImageIdsValidated ==
    built.op = "create_image_drillers" =>
        LET ids == built.image_ids.ids
            bad == built.image_ids.given /\
                   (Len(ids) /= Len(built.images) \/ ~NoRepeat(ids))
        IN  /\ bad <=> built.err = "PixelStacError"
            /\ built.err = "" =>
                  /\ Len(built.drillers) = Len(built.images)
                  /\ NoRepeat(DrillerIds)
                  /\ DrillerIds = IF built.image_ids.given THEN ids
                                  ELSE built.images

\* ------------------------------------------------------- buffer units
UnknownClass(c) == c \notin {"projected", "geographic"}
\* The buffer must be converted for dst_srs: a linear buffer for a
\* geographic target, an angular buffer for a projected target.
NeedsConversion ==
    \/ ~crs.pt.buffer_degrees /\ crs.dst_srs = "geographic"
    \/ crs.pt.buffer_degrees /\ crs.dst_srs = "projected"

\* C24 as stated: change_buffer_units raises the unknown-CRS-class error
\* and returns no distance whenever the CRS of the point or the target CRS
\* is neither projected nor geographic, whatever the unit of the buffer and
\* the class of the other CRS.
C24_UnknownClassAlwaysFails ==
    (crs.op = "change_buffer_units"
        /\ (UnknownClass(crs.pt.sp_ref) \/ UnknownClass(crs.dst_srs))) =>
        /\ crs.err = "PointError"
        /\ crs.buffer = NoDistance

\* C24, amended: change_buffer_units raises the unknown-CRS-class error and
\* returns no distance exactly when the target CRS is neither projected nor
\* geographic, or the buffer must be converted and the CRS of the point is
\* neither; a buffer whose unit suits the target is returned as it is,
\* whatever the class of the point's CRS.
C24_UnknownClass ==
    crs.op = "change_buffer_units" =>
        /\ crs.err = "PointError" <=>
              \/ UnknownClass(crs.dst_srs)
              \/ NeedsConversion /\ UnknownClass(crs.pt.sp_ref)
        /\ crs.err = "PointError" => crs.buffer = NoDistance
        /\ (crs.err = "" /\ ~NeedsConversion) => crs.buffer.via = "asis"
\* The call was made for an angular buffer and a target of unknown class,
\* and raised.
C24_Witness ==
    /\ crs.op = "change_buffer_units"
    /\ crs.pt.buffer_degrees /\ crs.pt.sp_ref = "projected"
    /\ UnknownClass(crs.dst_srs)
    /\ crs.err = "PointError"

\* C30: for a linear buffer of a point in a geographic CRS and a geographic
\* target, the EPSG code chosen is 32600 + z for a WGS84 latitude >= 0 and
\* 32700 + z otherwise, z = floor((lon + 180) / 6) + 1 being the UTM zone
\* of the WGS84 longitude, east and west of Greenwich; the code is within
\* 32601..32660 or 32701..32760.
C30_UtmZone ==
    (crs.op = "change_buffer_units" /\ ~crs.pt.buffer_degrees
        /\ crs.pt.sp_ref = "geographic" /\ crs.dst_srs = "geographic") =>
        LET z == ((crs.pt.wgs84_x + 180) \div 6) + 1
        IN  /\ crs.buffer.via = "utm"
            /\ crs.buffer.epsg = IF crs.pt.wgs84_y >= 0 THEN 32600 + z
                                 ELSE 32700 + z
            /\ \/ crs.buffer.epsg \in 32601..32660
               \/ crs.buffer.epsg \in 32701..32760

\* --------------------------------------------------- all-touched windows
\* The box of the point, in map units from the raster's left and top edge:
\* left and right edge rightwards, top and bottom edge downwards.
BoxLeft == point.c_x - point.buffer - image.x_min
BoxRight == point.c_x + point.buffer - image.x_min
BoxTop == image.y_max - (point.c_y + point.buffer)
BoxBottom == image.y_max - (point.c_y - point.buffer)
BoxInside ==
    /\ BoxLeft >= 0 /\ BoxRight <= image.ncols * image.x_res
    /\ BoxTop >= 0 /\ BoxBottom <= image.nrows * image.y_res
\* The box reaches into the raster without lying inside it.
BoxStraddles ==
    /\ ~BoxInside
    /\ BoxLeft < image.ncols * image.x_res /\ BoxRight > 0
    /\ BoxTop < image.nrows * image.y_res /\ BoxBottom > 0
Max(a, b) == IF a >= b THEN a ELSE b

\* C26: for a point with buffer > 0 whose box lies inside the image, the
\* window starts at the floor of the pixel column of the left edge and of
\* the pixel row of the top edge and ends at the ceil of the column of the
\* right edge and of the row of the bottom edge, so that every pixel the
\* box overlaps is in the window and every column and row of the window
\* meets the box; when the box straddles an edge, the window is the part
\* of that unclipped window that lies inside the grid.
C26_AllTouched ==
    (roi.op = "get_pix_window" /\ point.buffer > 0) =>
        LET w == roi.win
            ul_px == Floor(BoxLeft, image.x_res)
            ul_py == Floor(BoxTop, image.y_res)
            lr_px == Ceil(BoxRight, image.x_res)
            lr_py == Ceil(BoxBottom, image.y_res)
        IN  /\ BoxInside =>
                  /\ w.xoff = ul_px /\ w.yoff = ul_py
                  /\ w.xoff + w.win_xsize = lr_px
                  /\ w.yoff + w.win_ysize = lr_py
                  /\ \A c \in 0..(image.ncols - 1) :
                        /\ (c * image.x_res < BoxRight
                               /\ (c + 1) * image.x_res > BoxLeft)
                              => c \in w.xoff..(w.xoff + w.win_xsize - 1)
                        /\ c \in w.xoff..(w.xoff + w.win_xsize - 1)
                              => /\ c * image.x_res <= BoxRight
                                 /\ (c + 1) * image.x_res >= BoxLeft
                  /\ \A r \in 0..(image.nrows - 1) :
                        /\ (r * image.y_res < BoxBottom
                               /\ (r + 1) * image.y_res > BoxTop)
                              => r \in w.yoff..(w.yoff + w.win_ysize - 1)
                        /\ r \in w.yoff..(w.yoff + w.win_ysize - 1)
                              => /\ r * image.y_res <= BoxBottom
                                 /\ (r + 1) * image.y_res >= BoxTop
            /\ BoxStraddles =>
                  /\ w.xoff = Max(ul_px, 0) /\ w.yoff = Max(ul_py, 0)
                  /\ w.xoff + w.win_xsize = Min(lr_px, image.ncols)
                  /\ w.yoff + w.win_ysize = Min(lr_py, image.nrows)

\* ------------------------------------------------- recomputed statistics
UserNames(user_stats) == { user_stats[i].name : i \in 1..Len(user_stats) }
\* The entry new that calc_stats(std_stats, user_stats) left, old being the
\* entry before the call.
Recomputed(old, new, std_stats, user_stats) ==
    LET requested == Range(stats_list(std_stats))
        raw == new[STATS_RAW].items
    IN  /\ \A name \in requested :
              /\ name \in DOMAIN new
              /\ new[name].kind = "ndarray"
              /\ Len(new[name].items) = Len(raw)
              /\ \A i \in 1..Len(raw) :
                    new[name].items[i] = [raw[i] EXCEPT !.tag = name]
        /\ (InList(STATS_RAW, std_stats)
               \/ InList(STATS_ARRAYINFO, std_stats)) =>
              /\ new[STATS_RAW] = old[STATS_RAW]
              /\ new[STATS_ARRAYINFO] = old[STATS_ARRAYINFO]
        /\ \A k \in DOMAIN old :
              k \notin requested \cup UserNames(user_stats) => new[k] = old[k]

\* C28: right after calc_stats(X, std_stats, user_stats) returns, every
\* requested standard statistic of X holds one value per raw array stored
\* for X, value i computed from raw array i; 'raw' and 'arrayinfo' in
\* std_stats leave the two lists alone; the statistics not requested keep
\* their values; and the same call made again leaves the same entry.
C28_RecomputeCoversAll ==
    [][ \A p \in Points, id \in Items, c \in StatArgs :
          ( /\ last'.op = "calc_stats" /\ last'.res = ""
            /\ last'.id = id /\ last'.pts = {p}
            /\ CalcStats(p, id, c.std, c.user) ) =>
            /\ Recomputed(store[p][id], store'[p][id], c.std, c.user)
            /\ calc_stats(store'[p], p, id, c.std, c.user).is = store'[p]
      ]_vars

\* ------------------------------------------------- configuration errors
\* The three ways read_data is called on a misconfigured driller.
ConfigError(dr, ignore_val) ==
    IF IsImageItem(dr.item) THEN ignore_val.isList
    ELSE \/ dr.asset_ids_none
         \/ ignore_val.isList /\ ignore_val.len /= Len(dr.asset_ids)

\* C29: read_data on a catalog item without asset ids, with an ignore_val
\* list of another length than asset_ids, or on a plain image with an
\* ignore_val list raises ItemDrillerError and leaves every point's store
\* as it was, no window read; the constructor with asset_ids for a plain
\* image, set_asset_ids on a plain image and set_asset_ids with an empty
\* list raise ItemDrillerError and leave the driller as it was.
C29_ConfigErrorsChangeNothing ==
    [][ /\ \A it \in Items, iv \in IgnoreVals :
            \A f \in Fails(drillers[it]) :
              ( /\ last'.op = "read_data" /\ last'.id = it
                /\ ConfigError(drillers[it], iv)
                /\ ReadData(it, iv, f) ) =>
                /\ last'.res = "ItemDrillerError"
                /\ store' = store /\ hist' = hist
        /\ \A it \in Items, a \in AssetIdArgs :
              ( /\ last'.op = "ItemDriller" /\ last'.id = it
                /\ IsImageItem(it) /\ ~a.none
                /\ Construct(it, a) ) =>
                /\ last'.res = "ItemDrillerError"
                /\ drillers' = drillers
        /\ \A it \in Items, a \in AssetIdArgs :
              ( /\ last'.op = "set_asset_ids" /\ last'.id = it
                /\ (IsImageItem(it) \/ (~a.none /\ a.ids = <<>>))
                /\ SetAssetIds(it, a) ) =>
                /\ last'.res = "ItemDrillerError"
                /\ drillers' = drillers
      ]_vars

====
